---------------------------- MODULE Spec2Model ----------------------------
(***************************************************************************)
(* Model of the impersonation-detection core of streamer-verification:     *)
(*   - the composite risk scorer (_calculate_score),                       *)
(*   - the sliding-window rate limiter (TwitchAPIRateLimiter),              *)
(*   - the check_user orchestration with auto-populate, the auto-populate  *)
(*     semaphore and the per-check database session.                       *)
(*                                                                         *)
(* Floats that the code only ever compares against whole-number            *)
(* thresholds (similarities, 0..100) are modelled by their integer part:   *)
(* for a real x and an integer k, x >= k iff floor(x) >= k.                *)
(***************************************************************************)
EXTENDS Integers, Sequences, FiniteSets, TLC

VARIABLES
    \* ---- composite scorer harness (pure function under test)
    sc_a,            \* first argument tuple of _calculate_score
    sc_b,            \* second argument tuple (sc_a with one signal raised)
    sc_ra,           \* _calculate_score(sc_a), or NoScore before the call
    sc_rb,           \* _calculate_score(sc_b), or NoScore before the call
    \* ---- TwitchAPIRateLimiter
    requests_per_minute,   \* self.requests_per_minute
    request_times,         \* self.request_times (deque, oldest first)
    lock_holder,           \* task holding self._lock, or NoTask
    lock_waiters,          \* FIFO of tasks waiting for self._lock
    now,                   \* time.time(), in seconds
    rl_pc,                 \* per task: position inside acquire()
    rl_wake,               \* per task: time at which its asyncio.sleep ends
    recorded,              \* history: every timestamp ever appended
    usage,                 \* last value returned by get_current_usage()
    \* ---- environment of the checks
    directory,       \* ids the external directory can return for a search
    member_pool,     \* member profiles the membership source can supply
    faults,          \* failures the environment may still inject
    \* ---- persistent store (committed state)
    cache,           \* streamer_cache table: id -> row
    detections,      \* impersonation_detections table
    \* ---- ImpersonationDetectionService and its running checks
    sem_value,       \* self._auto_populate_semaphore._value
    sem_waiters,     \* FIFO of checks waiting for the semaphore
    pc,              \* per check: position in check_user
    member,          \* per check: the member being checked
    session,         \* per check: uncommitted writes of its db_session
    best,            \* per check: best_match / best_score
    ap,              \* per check: locals of _auto_populate_cache
    result,          \* per check: what check_user returned
    hist,            \* per check: history of what the check did
    refresh,         \* the running refresh_streamer_cache call
    \* ---- username similarity and account age (pure functions, memo cache)
    handles,           \* the pair of usernames under test
    similarity_cache,  \* self._similarity_cache, in insertion order
    sim_out,           \* last _calculate_username_similarity result
    pat_out,           \* last _check_impersonation_patterns result
    sim_hist,          \* history: every similarity call made so far
    age_in,            \* arguments of _calculate_account_age_days
    age_out,           \* its result, or NoResult before the call
    \* ---- StreamerCacheRepository.search_by_similarity
    search,            \* one call: its arguments, session, position, result
    \* ---- ImpersonationDetectionService._fetch_image_bytes
    fetch,             \* one call: the server's answer, position, result
    \* ---- ImpersonationDetectionService._get_avatar_hash
    avatar_hash_cache, \* self._avatar_hash_cache, in insertion order
    hash_call,         \* per task: position, url, last result of the call
    \* ---- bot/events.py on_member_join, bot/tasks.py check_impersonation_daily
    events,            \* one run of a handler: guild, members, position
    \* ---- ImpersonationModerationService.execute_action, /whitelist remove
    moderation         \* whitelist and Detection rows, the calls under way

scVars == <<sc_a, sc_b, sc_ra, sc_rb>>
rlVars == <<requests_per_minute, request_times, lock_holder, lock_waiters,
            now, rl_pc, rl_wake, recorded, usage>>
envVars == <<directory, member_pool, faults>>
dbVars == <<cache, detections>>
chkVars == <<sem_value, sem_waiters, pc, member, session, best, ap, result,
             hist, refresh>>
pureVars == <<handles, similarity_cache, sim_out, pat_out, sim_hist, age_in,
              age_out, search, fetch, avatar_hash_cache,
              hash_call, events, moderation>>
vars == <<scVars, rlVars, envVars, dbVars, chkVars, pureVars>>

NoScore == [total_score |-> -1]
NoResult == -1

(***************************************************************************)
(* Composite risk scorer: ImpersonationDetectionService._calculate_score   *)
(***************************************************************************)
\* A scorer whose 85-94 and 75-84 username buckets are exchanged.
UsernameScoreSwapped(username_similarity) ==
    IF username_similarity >= 95 THEN 40
    ELSE IF username_similarity >= 85 THEN 20
    ELSE IF username_similarity >= 75 THEN 30
    ELSE IF username_similarity >= 65 THEN 10
    ELSE 0

UsernameScore(username_similarity) ==
    IF username_similarity >= 95 THEN 40
    ELSE IF username_similarity >= 85 THEN 30
    ELSE IF username_similarity >= 75 THEN 20
    ELSE IF username_similarity >= 65 THEN 10
    ELSE 0

AgeScore(account_age_days) ==
    IF account_age_days <= 7 THEN 20
    ELSE IF account_age_days <= 30 THEN 15
    ELSE IF account_age_days <= 90 THEN 10
    ELSE IF account_age_days <= 180 THEN 5
    ELSE IF account_age_days <= 365 THEN 2
    ELSE 0

BioScore(bio_similarity) ==
    IF bio_similarity >= 100 THEN 20
    ELSE IF bio_similarity >= 90 THEN 15
    ELSE IF bio_similarity >= 70 THEN 10
    ELSE IF bio_similarity >= 50 THEN 5
    ELSE 0

PopularityScore(follower_count) ==
    IF 1000 <= follower_count /\ follower_count <= 50000 THEN 10
    ELSE IF (500 <= follower_count /\ follower_count < 1000)
            \/ (50000 < follower_count /\ follower_count <= 100000) THEN 5
    ELSE IF (100 <= follower_count /\ follower_count < 500)
            \/ (100000 < follower_count /\ follower_count <= 500000) THEN 2
    ELSE 0

DiscordScore(has_discord_link) == IF has_discord_link THEN 0 ELSE 10

AvatarScore(avatar_similarity) ==
    IF avatar_similarity >= 90 THEN 10
    ELSE IF avatar_similarity >= 80 THEN 5
    ELSE 0

\* A tier mapping whose "high" tier starts at 70.
RiskLevelShifted(total_score) ==
    IF total_score >= 80 THEN "critical"
    ELSE IF total_score >= 70 THEN "high"
    ELSE IF total_score >= 40 THEN "medium"
    ELSE "low"

RiskLevel(total_score) ==
    IF total_score >= 80 THEN "critical"
    ELSE IF total_score >= 60 THEN "high"
    ELSE IF total_score >= 40 THEN "medium"
    ELSE "low"

TotalScore(username_score, age_score, bio_score, popularity_score, discord_score, avatar_score) ==
    username_score + age_score + bio_score + popularity_score
        + discord_score + avatar_score

CalculateScore(username_similarity, account_age_days, bio_similarity, follower_count, has_discord_link, avatar_similarity) ==
    LET username_score   == UsernameScore(username_similarity)
        age_score        == AgeScore(account_age_days)
        bio_score        == BioScore(bio_similarity)
        popularity_score == PopularityScore(follower_count)
        discord_score    == DiscordScore(has_discord_link)
        avatar_score     == AvatarScore(avatar_similarity)
        total            == TotalScore(username_score, age_score, bio_score,
                                       popularity_score, discord_score,
                                       avatar_score)
    IN  [total_score               |-> total,
         username_similarity_score |-> username_score,
         account_age_score         |-> age_score,
         bio_match_score           |-> bio_score,
         streamer_popularity_score |-> popularity_score,
         discord_absence_score     |-> discord_score,
         avatar_match_score        |-> avatar_score,
         risk_level                |-> RiskLevel(total)]

ScoreOf(in) ==
    CalculateScore(in.username_similarity, in.account_age_days,
                   in.bio_similarity, in.follower_count,
                   in.has_discord_link, in.avatar_similarity)

(***************************************************************************)
(* Harness for the scorer: the inputs are drawn from sets that sit on and  *)
(* around every bucket boundary of _calculate_score.                       *)
(***************************************************************************)
SimilarityBase == {0, 70, 96}
AgeBase        == {2, 100, 400}
BioBase        == {0, 60, 100}
FollowerBase   == {0, 10000, 600000}
AvatarBase     == {0, 95}

SimilarityValues == {0, 64, 65, 74, 75, 84, 85, 94, 95, 100}
AgeValues        == {0, 7, 8, 30, 31, 90, 91, 180, 181, 365, 366, 1000, 1001}
BioValues        == {0, 49, 50, 69, 70, 89, 90, 99, 100}
FollowerValues   == {0, 99, 100, 499, 500, 999, 1000, 50000, 50001,
                     100000, 100001, 500000, 500001}
AvatarValues     == {0, 79, 80, 89, 90, 100}

ScoreInputs ==
    [username_similarity : SimilarityBase, account_age_days : AgeBase,
     bio_similarity : BioBase, follower_count : FollowerBase,
     has_discord_link : BOOLEAN, avatar_similarity : AvatarBase]

InitScore ==
    /\ sc_a \in ScoreInputs
    /\ sc_b = sc_a
    /\ sc_ra = NoScore
    /\ sc_rb = NoScore

\* Replace one signal of both argument tuples by a boundary value, and raise
\* that same signal further in the second tuple only.
SetSignal ==
    /\ sc_ra = NoScore
    /\ sc_b = sc_a
    /\ \/ \E x \in SimilarityValues, y \in SimilarityValues :
            /\ x < y
            /\ sc_a' = [sc_a EXCEPT !.username_similarity = x]
            /\ sc_b' = [sc_a EXCEPT !.username_similarity = y]
       \/ \E x \in AgeValues, y \in AgeValues :
            /\ x < y
            /\ sc_a' = [sc_a EXCEPT !.account_age_days = x]
            /\ sc_b' = [sc_a EXCEPT !.account_age_days = y]
       \/ \E x \in BioValues, y \in BioValues :
            /\ x < y
            /\ sc_a' = [sc_a EXCEPT !.bio_similarity = x]
            /\ sc_b' = [sc_a EXCEPT !.bio_similarity = y]
       \/ \E x \in FollowerValues, y \in FollowerValues :
            /\ x < y
            /\ sc_a' = [sc_a EXCEPT !.follower_count = x]
            /\ sc_b' = [sc_a EXCEPT !.follower_count = y]
       \/ /\ sc_a' = [sc_a EXCEPT !.has_discord_link = FALSE]
          /\ sc_b' = [sc_a EXCEPT !.has_discord_link = TRUE]
       \/ \E x \in AvatarValues, y \in AvatarValues :
            /\ x < y
            /\ sc_a' = [sc_a EXCEPT !.avatar_similarity = x]
            /\ sc_b' = [sc_a EXCEPT !.avatar_similarity = y]
    /\ UNCHANGED <<sc_ra, sc_rb>>
    /\ UNCHANGED <<rlVars, envVars, dbVars, chkVars, pureVars>>

\* Call _calculate_score on both argument tuples.
Score ==
    /\ sc_ra = NoScore
    /\ sc_ra' = ScoreOf(sc_a)
    /\ sc_rb' = ScoreOf(sc_b)
    /\ UNCHANGED <<sc_a, sc_b>>
    /\ UNCHANGED <<rlVars, envVars, dbVars, chkVars, pureVars>>

(***************************************************************************)
(* Sliding-window rate limiter: TwitchAPIRateLimiter                       *)
(*                                                                         *)
(* asyncio runs one task at a time and switches tasks only at an await     *)
(* that suspends, so each action below is the code between two             *)
(* suspensions.  `async with self._lock` does not suspend when the lock is *)
(* free and nobody waits for it; the only suspension inside the critical   *)
(* section is asyncio.sleep.                                               *)
(***************************************************************************)
NumTasks    == 3      \* concurrent callers of acquire()
RLCeiling   == 2      \* requests_per_minute of the limiter under test
MaxRequests == 5      \* acquire() calls made in one behaviour
MaxTime     == 140    \* the clock stops here, unless a caller is asleep
Window      == 60     \* seconds of the sliding window
GlobalCeiling == 600  \* requests_per_minute of the global instance

Tasks  == 1..NumTasks
NoTask == 0
TickLen == Window \div 3

RECURSIVE PruneOld(_, _)
\* while self.request_times and now - self.request_times[0] >= 60: popleft()
PruneOld(q, t) ==
    IF q # <<>> /\ t - Head(q) >= Window THEN PruneOld(Tail(q), t) ELSE q

AtLimit(q, ceiling) == Len(q) >= ceiling

\* A limiter that sleeps for half a window only.
SleepTimeHalved(q, t) == (Window \div 2) - (t - Head(q))

SleepTime(q, t) == Window - (t - Head(q))

\* A count of every stored timestamp, whatever its age.
CountAll(q, t) == Len(q)

\* sum(1 for t in self.request_times if now - t < 60)
CurrentCount(q, t) == Cardinality({i \in DOMAIN q : t - q[i] < Window})

\* A limiter without a lock.
LockAlwaysFree == TRUE

\* A lock that a newcomer takes ahead of the queued callers.
LockBarging == lock_holder = NoTask

\* `async with self._lock` enters without suspending: the lock is free and
\* no earlier caller is queued for it.
LockFree == lock_holder = NoTask /\ lock_waiters = <<>>

\* self._lock.release(): the lock becomes free; the first waiter, if any,
\* stays queued until it is scheduled (LockResume).
ReleaseLock == lock_holder' = NoTask

\* The body of acquire() from `now = time.time()` up to its first
\* suspension or its end, run by task t, which holds the lock.
AcquireBody(t) ==
    LET pruned == PruneOld(request_times, now) IN
    IF AtLimit(pruned, requests_per_minute) /\ SleepTime(pruned, now) > 0
    THEN /\ request_times' = pruned
         /\ lock_holder' = t
         /\ rl_pc' = [rl_pc EXCEPT ![t] = "sleeping"]
         /\ rl_wake' = [rl_wake EXCEPT ![t] = now + SleepTime(pruned, now)]
         /\ UNCHANGED recorded
    ELSE /\ request_times' = Append(pruned, now)
         /\ recorded' = Append(recorded, now)
         /\ ReleaseLock
         /\ rl_pc' = [rl_pc EXCEPT ![t] = "idle"]
         /\ UNCHANGED rl_wake

Started == Len(recorded) + Cardinality({t \in Tasks : rl_pc[t] # "idle"})

\* acquire() called by task t: enters the critical section at once when the
\* lock is free and has no waiters, else queues for the lock.
Acquire(t) ==
    /\ rl_pc[t] = "idle"
    /\ Started < MaxRequests
    /\ IF LockFree
       THEN /\ AcquireBody(t)
            /\ UNCHANGED lock_waiters
       ELSE /\ lock_waiters' = Append(lock_waiters, t)
            /\ rl_pc' = [rl_pc EXCEPT ![t] = "waiting"]
            /\ UNCHANGED <<request_times, lock_holder, rl_wake, recorded>>
    /\ UNCHANGED <<requests_per_minute, now, usage>>
    /\ UNCHANGED <<scVars, envVars, dbVars, chkVars, pureVars>>

\* The first waiter is scheduled after a release and takes the lock.
LockResume(t) ==
    /\ rl_pc[t] = "waiting"
    /\ lock_holder = NoTask
    /\ lock_waiters # <<>> /\ Head(lock_waiters) = t
    /\ lock_waiters' = Tail(lock_waiters)
    /\ AcquireBody(t)
    /\ UNCHANGED <<requests_per_minute, now, usage>>
    /\ UNCHANGED <<scVars, envVars, dbVars, chkVars, pureVars>>

\* asyncio.sleep(sleep_time) has elapsed: prune again and record.
WakeUp(t) ==
    /\ rl_pc[t] = "sleeping"
    /\ now >= rl_wake[t]
    /\ request_times' = Append(PruneOld(request_times, now), now)
    /\ recorded' = Append(recorded, now)
    /\ ReleaseLock
    /\ rl_pc' = [rl_pc EXCEPT ![t] = "idle"]
    /\ UNCHANGED <<requests_per_minute, lock_waiters, now, rl_wake, usage>>
    /\ UNCHANGED <<scVars, envVars, dbVars, chkVars, pureVars>>

\* get_current_usage()
GetCurrentUsage ==
    /\ usage' = <<CurrentCount(request_times, now), requests_per_minute>>
    /\ UNCHANGED <<requests_per_minute, request_times, lock_holder,
                   lock_waiters, now, rl_pc, rl_wake, recorded>>
    /\ UNCHANGED <<scVars, envVars, dbVars, chkVars, pureVars>>

\* The wall clock advances.
Tick ==
    /\ \/ now + TickLen <= MaxTime
       \/ \E t \in Tasks : rl_pc[t] = "sleeping" /\ rl_wake[t] > now
    /\ now' = now + TickLen
    /\ UNCHANGED <<requests_per_minute, request_times, lock_holder,
                   lock_waiters, rl_pc, rl_wake, recorded, usage>>
    /\ UNCHANGED <<scVars, envVars, dbVars, chkVars, pureVars>>

(***************************************************************************)
(* The store, the directory and the members                                *)
(***************************************************************************)
MaxIds    == 2     \* identities known to the external directory
NumChecks == 2     \* checks running concurrently
MaxFaults == 1     \* failures injected in one behaviour
SemPermits         == 5    \* asyncio.Semaphore(5)
MinSimilarity      == 65   \* self.min_similarity_threshold
AvatarThreshold    == 85   \* self.avatar_similarity_threshold
MinReportThreshold == 40   \* `best_score < 40`

Ids  == 1..MaxIds
NoId == 0

\* What the directory API returns for identity id, and how the identity
\* compares with the member under check.  Odd ids are close look-alikes with
\* a matching bio and no Discord link, even ids are weak matches.
DirFollowers(id)  == IF id % 2 = 1 THEN 10000 ELSE 200
DirHasLink(id)    == id % 2 = 0
DirHasBio(id)     == id % 2 = 1
NameSimilarity(id) == IF id % 2 = 1 THEN 96 ELSE 70
FarSimilarity      == 50
BioSimilarity(id)  == IF id % 2 = 1 THEN 100 ELSE 0
AvatarOutcomes     == {0, 80, 95}

\* A streamer_cache row.  present = FALSE stands for "no such row".
\* last_updated is a logical time: 0 lies more than the staleness age
\* before the behaviour, a row created in the behaviour carries 1, and each
\* update() stamps a later time.
EmptyRow ==
    [present |-> FALSE, twitch_user_id |-> NoId, follower_count |-> 0,
     has_discord_link |-> FALSE, description |-> FALSE,
     profile_image_hash |-> FALSE, cache_hits |-> 0, last_updated |-> 0]

\* The row _auto_populate_cache inserts: the fetched profile, or, after a
\* TwitchAPIError, the search result with follower_count 0.
NewRow(id, fallback, hashed) ==
    [present |-> TRUE,
     twitch_user_id |-> id,
     follower_count |-> IF fallback THEN 0 ELSE DirFollowers(id),
     has_discord_link |-> IF fallback THEN FALSE ELSE DirHasLink(id),
     description |-> IF fallback THEN FALSE ELSE DirHasBio(id),
     profile_image_hash |-> hashed,
     cache_hits |-> 0,
     last_updated |-> 1]

\* Logical time of `datetime.utcnow() - timedelta(days=days_old)`.
StaleCutoff == 1

\* get_stale_entries: the rows with last_updated before the cutoff.
GetStaleEntries(rows) ==
    {i \in DOMAIN rows : rows[i].present /\ rows[i].last_updated < StaleCutoff}

\* far: the member's name is far from the names of the even identities.
Members ==
    { [whitelisted |-> TRUE,  trusted |-> FALSE, age |-> 2,   bio |-> TRUE,
       avatar |-> TRUE,  far |-> FALSE],
      [whitelisted |-> FALSE, trusted |-> TRUE,  age |-> 2,   bio |-> TRUE,
       avatar |-> TRUE,  far |-> FALSE],
      [whitelisted |-> FALSE, trusted |-> FALSE, age |-> 2,   bio |-> TRUE,
       avatar |-> TRUE,  far |-> FALSE],
      [whitelisted |-> FALSE, trusted |-> FALSE, age |-> 400, bio |-> FALSE,
       avatar |-> FALSE, far |-> FALSE],
      [whitelisted |-> FALSE, trusted |-> FALSE, age |-> 2,   bio |-> FALSE,
       avatar |-> TRUE,  far |-> TRUE] }

\* _calculate_username_similarity(member.name, twitch_username) for member
\* m and identity id.
UsernameSimilarity(m, id) ==
    IF m.far /\ id % 2 = 0 THEN FarSimilarity ELSE NameSimilarity(id)

Checks == DOMAIN pc

EmptySession ==
    [adds |-> [i \in Ids |-> EmptyRow], hits |-> [i \in Ids |-> 0],
     det |-> {}]

ZeroScores == CalculateScore(0, 1000, 0, 0, TRUE, 0)

\* scored: the identities handed to _calculate_score so far, in order;
\* at: the position in scored at which the best match was taken (history).
NoBest ==
    [id |-> NoId, similarity |-> 0, bio_similarity |-> 0,
     scores |-> ZeroScores, score |-> 0, row |-> EmptyRow, scored |-> <<>>,
     at |-> 0]

\* returned: what the last _auto_populate_cache call of the check returned.
\* gap: what the call did last of "fetched" (a profile fetch was issued) and
\* "slept" (the 0.1 s delay was taken); "none" before its first fetch.
NoAp ==
    [results |-> <<>>, i |-> 0, added |-> 0, fallback |-> FALSE,
     returned |-> NoResult, gap |-> "none"]

NoHist ==
    [lookups |-> 0, scored |-> 0, ext |-> 0, writes |-> 0, creates |-> 0,
     populates |-> 0, raised |-> 0, failed |-> FALSE, committed |-> {},
     hits |-> 0, passes |-> 0, reached |-> {}, inserted |-> {},
     handled |-> 0, undelayed |-> 0,
     avatar |-> "none"]

(***************************************************************************)
(* Session and store operations                                            *)
(***************************************************************************)
\* What the session of check c reads for identity id: its own flushed,
\* uncommitted insert, else the committed row.
VisibleRow(c, id) ==
    IF session[c].adds[id].present THEN session[c].adds[id] ELSE cache[id]

\* A session whose rollback drops nothing.
RollbackKeeps(s) == s

\* session.rollback(): every uncommitted write of the session is dropped.
Rollback(s) == EmptySession

\* A commit whose counter update also stamps last_updated.
CommittedCacheStamping(c) ==
    [i \in Ids |->
        IF session[c].adds[i].present
        THEN [session[c].adds[i] EXCEPT !.cache_hits = @ + session[c].hits[i]]
        ELSE IF cache[i].present
             THEN [cache[i] EXCEPT
                      !.cache_hits = @ + session[c].hits[i],
                      !.last_updated = @ + session[c].hits[i]]
             ELSE cache[i]]

\* session.commit() of check c, as it changes the streamer_cache table.
CommittedCache(c) ==
    [i \in Ids |->
        IF session[c].adds[i].present
        THEN [session[c].adds[i] EXCEPT !.cache_hits = @ + session[c].hits[i]]
        ELSE IF cache[i].present
             THEN [cache[i] EXCEPT !.cache_hits = @ + session[c].hits[i]]
             ELSE cache[i]]

\* A counter update that adds two.
IncrementTwice(s, id) == [s EXCEPT !.hits[id] = @ + 2]

\* StreamerCacheRepository.increment_cache_hits: cache_hits = cache_hits + 1,
\* flushed in session s.
IncrementCacheHits(s, id) == [s EXCEPT !.hits[id] = @ + 1]

PendingAdds(c) == {i \in Ids : session[c].adds[i].present}

RECURSIVE SumTo(_, _)
SumTo(f, n) == IF n = 0 THEN 0 ELSE f[n] + SumTo(f, n - 1)

\* History of check c after its session committed.
Committed(c, h) ==
    [h EXCEPT !.committed = @ \cup PendingAdds(c),
              !.hits = @ + SumTo(session[c].hits, MaxIds)]

\* Some other session holds a flushed, uncommitted insert of the same
\* twitch_user_id: the unique index makes this insert wait for it.
InsertBlocked(c, id) ==
    \E d \in Checks \ {c} : session[d].adds[id].present

(***************************************************************************)
(* External directory (TwitchService.search_channels, get_user_profile,    *)
(* get_follower_count).  Each call first awaits the shared limiter's       *)
(* acquire(); with the lock free and the window below the ceiling that     *)
(* acquire() records its timestamp without suspending.                     *)
(***************************************************************************)
\* A directory client that bypasses the limiter.
NoAcquire(n) == 0

\* Number of acquire() calls made by n directory calls.
TwitchServiceAcquires(n) == n

RECURSIVE AcquireTimes(_, _)
AcquireTimes(q, n) ==
    IF n = 0 THEN q ELSE AcquireTimes(Append(PruneOld(q, now), now), n - 1)

DirectoryCalls(n) ==
    /\ LockFree
    /\ Len(request_times) + n <= requests_per_minute
    /\ request_times' = AcquireTimes(request_times, TwitchServiceAcquires(n))
    /\ recorded' = recorded \o [k \in 1..TwitchServiceAcquires(n) |-> now]

NoDirectoryCall == UNCHANGED <<request_times, recorded>>

\* The search results the directory may return: ids in ascending order.
RECURSIVE SeqOfSet(_, _)
SeqOfSet(S, i) ==
    IF i > MaxIds THEN <<>>
    ELSE IF i \in S THEN <<i>> \o SeqOfSet(S, i + 1) ELSE SeqOfSet(S, i + 1)

(***************************************************************************)
(* check_user: scoring passes                                              *)
(***************************************************************************)
\* StreamerCacheRepository.search_by_similarity as seen by check c.
Candidates(c) == SeqOfSet({i \in Ids : VisibleRow(c, i).present}, 1)

\* A pass that lets every candidate through.
PassesAlways(similarity) == TRUE

\* `if similarity < self.min_similarity_threshold: continue`
PassesGate(similarity) == ~(similarity < MinSimilarity)

\* The candidates of a pass whose username similarity reaches the floor.
ReachedFloor(c, cands) ==
    {cands[k] : k \in {j \in DOMAIN cands :
                  UsernameSimilarity(member[c], cands[j]) >= MinSimilarity}}

\* A comparison that lets a later candidate win a tie.
BetterOrEqual(total_score, best_score) == total_score >= best_score

\* `if candidate_scores["total_score"] > best_score`
Better(total_score, best_score) == total_score > best_score

\* One iteration of the candidate loop (lines 120-154 and 187-216).
ScoreCandidate(c, id, b) ==
    LET row == VisibleRow(c, id)
        similarity == UsernameSimilarity(member[c], id)
        bio_similarity ==
            IF member[c].bio /\ row.description THEN BioSimilarity(id) ELSE 0
        candidate_scores ==
            CalculateScore(similarity, member[c].age, bio_similarity,
                           row.follower_count, row.has_discord_link, 0)
    IN  IF ~PassesGate(similarity) THEN b
        ELSE IF Better(candidate_scores.total_score, b.score)
        THEN [id |-> id, similarity |-> similarity,
              bio_similarity |-> bio_similarity,
              scores |-> candidate_scores,
              score |-> candidate_scores.total_score, row |-> row,
              scored |-> Append(b.scored, id),
              at |-> Len(b.scored) + 1]
        ELSE [b EXCEPT !.scored = Append(@, id)]

RECURSIVE ScorePass(_, _, _)
ScorePass(c, cands, b) ==
    IF cands = <<>> THEN b
    ELSE ScorePass(c, Tail(cands), ScoreCandidate(c, Head(cands), b))

\* `best_score < self.min_similarity_threshold or not best_match`
NeedsAutoPopulate(b) == b.score < MinSimilarity \/ b.id = NoId

\* An avatar comparison that does not look at the username similarity.
AvatarWantedAnySimilarity(c, b) ==
    /\ b.row.profile_image_hash
    /\ member[c].avatar

\* Conditions of the optional avatar comparison (lines 235-239).
AvatarWanted(c, b) ==
    /\ b.similarity >= AvatarThreshold
    /\ b.row.profile_image_hash
    /\ member[c].avatar

\* A reporting floor of 30 instead of 40.
BelowThirty(score) == score < 30

\* `best_score < 40`
BelowThreshold(score) == score < MinReportThreshold

\* The row check c would write from the scores of the scoring passes,
\* leaving the re-score after the avatar comparison aside.
DetectionRecordFirstScores(c, b) ==
    LET first == CalculateScore(b.similarity, member[c].age,
                                b.bio_similarity, b.row.follower_count,
                                b.row.has_discord_link, 0)
    IN [check |-> c, suspected_streamer_id |-> b.id,
        total_score |-> first.total_score, scores |-> first,
        risk_level |-> first.risk_level]

\* The ImpersonationDetection row written for check c.
DetectionRecord(c, b) ==
    [check |-> c, suspected_streamer_id |-> b.id,
     total_score |-> b.scores.total_score, scores |-> b.scores,
     risk_level |-> b.scores.risk_level]

(***************************************************************************)
(* check_user: the steps between two suspensions                           *)
(***************************************************************************)
\* Variables no step of a check touches.
CheckFrame ==
    UNCHANGED <<scVars, requests_per_minute, lock_holder, lock_waiters, now,
                rl_pc, rl_wake, directory, member_pool, refresh, pureVars>>

NoFault == UNCHANGED faults
Fault   == faults > 0 /\ faults' = faults - 1

\* A handler that re-raises.
HandlerRaises == "raised"

\* What check_user returns from its `except Exception` handler.
HandlerResult == "None"

\* The `except Exception` handler of check_user (lines 311-316).
Handler(c, h) ==
    /\ session' = [session EXCEPT ![c] = Rollback(@)]
    /\ result' = [result EXCEPT ![c] = HandlerResult]
    /\ pc' = [pc EXCEPT ![c] = "done"]
    /\ hist' = [hist EXCEPT ![c] =
                  [h EXCEPT !.failed = TRUE, !.raised = @ + 1]]

\* Lines 224-265 up to the first suspension, with best match b: return None,
\* or go on to the avatar fetch or to the Detection create.
Conclude(c, b) ==
    /\ best' = [best EXCEPT ![c] = b]
    /\ IF b.id = NoId \/ (~AvatarWanted(c, b) /\ BelowThreshold(b.score))
       THEN /\ pc' = [pc EXCEPT ![c] = "done"]
            /\ result' = [result EXCEPT ![c] = "None"]
       ELSE /\ pc' = [pc EXCEPT ![c] =
                        IF AvatarWanted(c, b) THEN "avatar" ELSE "create"]
            /\ UNCHANGED result

\* A service whose auto-populate is not bounded by the semaphore.
PermitAlwaysFree == TRUE

\* `async with self._auto_populate_semaphore` enters without suspending.
PermitFree == sem_value > 0 /\ sem_waiters = <<>>

\* An exit that keeps the permit.
SemRetain == UNCHANGED sem_value

\* `async with self._auto_populate_semaphore` exits.
SemRelease == sem_value' = sem_value + 1

\* A check that skips the trusted-role test.
WhitelistedOnly(m) == m.whitelisted

\* Whitelisted for the guild, or holding a trusted role (lines 76-100).
Bypassed(m) == m.whitelisted \/ m.trusted

\* check_user is called; the whitelist lookup and the trusted-role test.
CheckUser(c) ==
    /\ pc[c] = "idle"
    /\ \E m \in member_pool :
        /\ member' = [member EXCEPT ![c] = m]
        /\ \/ /\ Bypassed(m)
              /\ pc' = [pc EXCEPT ![c] = "done"]
              /\ result' = [result EXCEPT ![c] = "None"]
              /\ NoFault
              /\ UNCHANGED <<session, hist>>
           \/ /\ ~Bypassed(m)
              /\ pc' = [pc EXCEPT ![c] = "lookup"]
              /\ NoFault
              /\ UNCHANGED <<result, session, hist>>
           \/ /\ Fault          \* the whitelist query raises
              /\ Handler(c, hist[c])
    /\ NoDirectoryCall
    /\ UNCHANGED <<usage, cache, detections, sem_value, sem_waiters, best, ap>>
    /\ CheckFrame

\* _auto_populate_cache starts: the search request is issued.
EnterAutoPopulate(c, h) ==
    /\ DirectoryCalls(1)
    /\ pc' = [pc EXCEPT ![c] = "ap_search"]
    /\ hist' = [hist EXCEPT ![c] =
                  [h EXCEPT !.populates = @ + 1, !.ext = @ + 1]]

\* search_by_similarity returns; first pass; then either conclude or start
\* auto-populate (taking a semaphore permit or queueing for one).
Lookup(c) ==
    /\ pc[c] = "lookup"
    /\ \/ /\ NoFault
          /\ LET cands == Candidates(c)
                 b == ScorePass(c, cands, NoBest)
                 h == [hist[c] EXCEPT !.lookups = @ + 1,
                                      !.scored = @ + Len(cands),
                                      !.passes = @ + 1,
                                      !.reached = ReachedFloor(c, cands)]
             IN IF NeedsAutoPopulate(b)
                THEN /\ best' = [best EXCEPT ![c] = b]
                     /\ usage' = <<CurrentCount(request_times, now),
                                   requests_per_minute>>
                     /\ UNCHANGED <<result, session>>
                     /\ IF PermitFree
                        THEN /\ sem_value' = sem_value - 1
                             /\ EnterAutoPopulate(c, h)
                             /\ UNCHANGED sem_waiters
                        ELSE /\ sem_waiters' = Append(sem_waiters, c)
                             /\ pc' = [pc EXCEPT ![c] = "sem_wait"]
                             /\ hist' = [hist EXCEPT ![c] = h]
                             /\ NoDirectoryCall
                             /\ UNCHANGED sem_value
                ELSE /\ Conclude(c, b)
                     /\ hist' = [hist EXCEPT ![c] = h]
                     /\ NoDirectoryCall
                     /\ UNCHANGED <<usage, session, sem_value, sem_waiters>>
       \/ /\ Fault              \* the candidate query raises
          /\ Handler(c, [hist[c] EXCEPT !.lookups = @ + 1])
          /\ NoDirectoryCall
          /\ UNCHANGED <<usage, best, sem_value, sem_waiters>>
    /\ UNCHANGED <<cache, detections, member, ap>>
    /\ CheckFrame

\* A queued check gets its semaphore permit.
SemResume(c) ==
    /\ pc[c] = "sem_wait"
    /\ sem_value > 0
    /\ sem_waiters # <<>> /\ Head(sem_waiters) = c
    /\ sem_waiters' = Tail(sem_waiters)
    /\ sem_value' = sem_value - 1
    /\ EnterAutoPopulate(c, hist[c])
    /\ NoFault
    /\ UNCHANGED <<usage, cache, detections, member, session, best, ap,
                   result>>
    /\ CheckFrame

(***************************************************************************)
(* _auto_populate_cache                                                    *)
(***************************************************************************)
\* A check that re-scores after every auto-populate.
RescoreAlways(n) == TRUE

\* `if added_count > 0`
Rescore(n) == n > 0

\* _auto_populate_cache returns n: the semaphore is released, then either
\* the second lookup is issued (added_count > 0) or the check concludes.
LeaveAutoPopulate(c, n) ==
    /\ SemRelease
    /\ ap' = [ap EXCEPT ![c] = [NoAp EXCEPT !.returned = n]]
    /\ IF Rescore(n)
       THEN /\ pc' = [pc EXCEPT ![c] = "lookup2"]
            /\ UNCHANGED <<best, result>>
       ELSE Conclude(c, best[c])

\* `if i < len(search_results) - 1: await asyncio.sleep(0.1)` at the end of
\* the loop body (a.i counts from 1).
Delay(a) == [a EXCEPT !.gap = IF a.i < Len(a.results) THEN "slept" ELSE @]

\* The loop moves on to the next search result, or to the final commit.
NextResult(c, a) ==
    IF a.i + 1 > Len(a.results)
    THEN /\ ap' = [ap EXCEPT ![c] = [a EXCEPT !.i = a.i + 1]]
         /\ pc' = [pc EXCEPT ![c] = "ap_commit"]
    ELSE /\ ap' = [ap EXCEPT ![c] = [a EXCEPT !.i = a.i + 1]]
         /\ pc' = [pc EXCEPT ![c] = "ap_lookup"]

\* search_channels returns.
Search(c) ==
    /\ pc[c] = "ap_search"
    /\ \/ \E S \in SUBSET directory :
            /\ S # {}
            /\ ap' = [ap EXCEPT ![c] =
                        [results |-> SeqOfSet(S, 1), i |-> 1, added |-> 0,
                         fallback |-> FALSE, returned |-> NoResult,
                         gap |-> "none"]]
            /\ pc' = [pc EXCEPT ![c] = "ap_lookup"]
            /\ NoFault
            /\ UNCHANGED <<sem_value, best, result, hist>>
       \/ /\ LeaveAutoPopulate(c, 0)     \* no channel found
          /\ NoFault
          /\ UNCHANGED hist
       \/ /\ Fault                       \* TwitchAPIError: return 0
          /\ LeaveAutoPopulate(c, 0)
          /\ hist' = [hist EXCEPT ![c].raised = @ + 1]
    /\ NoDirectoryCall
    /\ UNCHANGED <<usage, cache, detections, sem_waiters, member, session>>
    /\ CheckFrame

\* get_by_twitch_id returns for the current search result: a cached
\* identity only gets its hit counter incremented, an unknown one is fetched.
ApLookup(c) ==
    /\ pc[c] = "ap_lookup"
    /\ LET id == ap[c].results[ap[c].i] IN
       \/ /\ VisibleRow(c, id).present
          /\ session' = [session EXCEPT ![c] = IncrementCacheHits(@, id)]
          /\ hist' = [hist EXCEPT ![c] =
                        [@ EXCEPT !.writes = @ + 1, !.handled = @ + 1]]
          /\ NextResult(c, ap[c])
          /\ NoDirectoryCall
       \/ /\ ~VisibleRow(c, id).present
          /\ DirectoryCalls(1)           \* get_user_profile is issued
          /\ hist' = [hist EXCEPT ![c] =
                        [@ EXCEPT !.ext = @ + 1,
                                  !.undelayed =
                                      IF ap[c].gap = "fetched"
                                      THEN @ + 1 ELSE @]]
          /\ ap' = [ap EXCEPT ![c].gap = "fetched"]
          /\ pc' = [pc EXCEPT ![c] = "ap_fetch"]
          /\ UNCHANGED session
    /\ NoFault
    /\ UNCHANGED <<usage, cache, detections, sem_value, sem_waiters, member,
                   best, result>>
    /\ CheckFrame

\* get_user_profile returns, then get_follower_count is issued and returns.
ApFetch(c) ==
    /\ pc[c] = "ap_fetch"
    /\ \/ /\ NoFault                     \* both succeed
          /\ DirectoryCalls(1)
          /\ hist' = [hist EXCEPT ![c].ext = @ + 1]
          /\ ap' = [ap EXCEPT ![c].fallback = FALSE]
       \/ /\ Fault                       \* get_user_profile raises
          /\ NoDirectoryCall
          /\ hist' = [hist EXCEPT ![c].raised = @ + 1]
          /\ ap' = [ap EXCEPT ![c].fallback = TRUE]
       \/ /\ Fault                       \* get_follower_count raises
          /\ DirectoryCalls(1)
          /\ hist' = [hist EXCEPT ![c] =
                        [@ EXCEPT !.ext = @ + 1, !.raised = @ + 1]]
          /\ ap' = [ap EXCEPT ![c].fallback = TRUE]
    /\ pc' = [pc EXCEPT ![c] = "ap_store"]
    /\ UNCHANGED <<usage, cache, detections, sem_value, sem_waiters, member,
                   session, best, result>>
    /\ CheckFrame

\* The profile image is hashed (or not) and StreamerCacheRepository.create
\* flushes the insert.
ApStore(c) ==
    /\ pc[c] = "ap_store"
    /\ LET id == ap[c].results[ap[c].i] IN
       \/ /\ cache[id].present           \* IntegrityError: create rolls back
          /\ session' = [session EXCEPT ![c] = Rollback(@)]
          /\ NoFault
          /\ hist' = [hist EXCEPT ![c] =
                        [@ EXCEPT !.raised = @ + 1, !.handled = @ + 1]]
          /\ NextResult(c, ap[c])
       \/ /\ ~cache[id].present
          /\ ~InsertBlocked(c, id)
          /\ \/ /\ NoFault
                /\ session' = [session EXCEPT ![c].adds[id] =
                                 NewRow(id, ap[c].fallback, TRUE)]
             \/ /\ Fault       \* the image fetch fails: no hash
                /\ session' = [session EXCEPT ![c].adds[id] =
                                 NewRow(id, ap[c].fallback, FALSE)]
          /\ hist' = [hist EXCEPT ![c] =
                        [@ EXCEPT !.writes = @ + 1,
                                  !.inserted = @ \cup {id},
                                  !.handled = @ + 1]]
          /\ NextResult(c, Delay([ap[c] EXCEPT !.added = @ + 1]))
    /\ NoDirectoryCall
    /\ UNCHANGED <<usage, cache, detections, sem_value, sem_waiters, member,
                   best, result>>
    /\ CheckFrame

\* `await db_session.commit()` at the end of _auto_populate_cache.
ApCommit(c) ==
    /\ pc[c] = "ap_commit"
    /\ \/ /\ NoFault
          /\ cache' = CommittedCache(c)
          /\ detections' = detections \cup session[c].det
          /\ session' = [session EXCEPT ![c] = EmptySession]
          /\ hist' = [hist EXCEPT ![c] = Committed(c, @)]
          /\ LeaveAutoPopulate(c, ap[c].added)
       \/ /\ Fault                       \* commit raises: rollback, return 0
          /\ session' = [session EXCEPT ![c] = Rollback(@)]
          /\ LeaveAutoPopulate(c, 0)
          /\ hist' = [hist EXCEPT ![c].raised = @ + 1]
          /\ UNCHANGED <<cache, detections>>
    /\ NoDirectoryCall
    /\ UNCHANGED <<usage, sem_waiters, member>>
    /\ CheckFrame

(***************************************************************************)
(* check_user after auto-populate                                          *)
(***************************************************************************)
\* The second search_by_similarity returns; second pass; conclude.
Lookup2(c) ==
    /\ pc[c] = "lookup2"
    /\ \/ /\ NoFault
          /\ LET cands == Candidates(c) IN
             /\ Conclude(c, ScorePass(c, cands, best[c]))
             /\ hist' = [hist EXCEPT ![c] =
                           [@ EXCEPT !.lookups = @ + 1,
                                     !.scored = @ + Len(cands),
                                     !.passes = @ + 1]]
          /\ UNCHANGED session
       \/ /\ Fault              \* the candidate query raises
          /\ Handler(c, [hist[c] EXCEPT !.lookups = @ + 1])
          /\ UNCHANGED best
    /\ NoDirectoryCall
    /\ UNCHANGED <<usage, cache, detections, sem_value, sem_waiters, member,
                   ap>>
    /\ CheckFrame

\* A comparison whose failed fetch is taken for a full match.
FailedIsMatch(hashed, compared) == IF hashed THEN compared ELSE 100

\* Lines 233-245: avatar_similarity stays 0.0 when _get_avatar_hash returned
\* None (hashed = FALSE), else it is the similarity of the two hashes.
AvatarSimilarity(hashed, compared) == IF hashed THEN compared ELSE 0

\* _get_avatar_hash returns a hash or None (the image could not be fetched
\* or decoded); rescoring when the avatar similarity is above 0; then the
\* threshold test.
Avatar(c) ==
    /\ pc[c] = "avatar"
    /\ \E hashed \in BOOLEAN, compared \in AvatarOutcomes :
         LET av == AvatarSimilarity(hashed, compared)
             b == best[c]
             matched_scores ==
                 IF av > 0
                 THEN CalculateScore(b.similarity, member[c].age,
                                     b.bio_similarity, b.row.follower_count,
                                     b.row.has_discord_link, av)
                 ELSE b.scores
             nb == [b EXCEPT !.scores = matched_scores,
                             !.score = IF av > 0
                                       THEN matched_scores.total_score
                                       ELSE b.score]
         IN /\ best' = [best EXCEPT ![c] = nb]
            /\ IF BelowThreshold(nb.score)
               THEN /\ pc' = [pc EXCEPT ![c] = "done"]
                    /\ result' = [result EXCEPT ![c] = "None"]
               ELSE /\ pc' = [pc EXCEPT ![c] = "create"]
                    /\ UNCHANGED result
            /\ hist' = [hist EXCEPT ![c].avatar =
                          IF hashed THEN "compared" ELSE "failed"]
    /\ NoFault
    /\ NoDirectoryCall
    /\ UNCHANGED <<usage, cache, detections, sem_value, sem_waiters, member,
                   session, ap>>
    /\ CheckFrame

\* ImpersonationDetectionRepository.create flushes the Detection.
CreateDetection(c) ==
    /\ pc[c] = "create"
    /\ \/ /\ NoFault
          /\ session' = [session EXCEPT ![c].det =
                           {DetectionRecord(c, best[c])}]
          /\ hist' = [hist EXCEPT ![c] =
                        [@ EXCEPT !.creates = @ + 1, !.writes = @ + 1]]
          /\ pc' = [pc EXCEPT ![c] = "commit"]
          /\ UNCHANGED result
       \/ /\ Fault              \* the flush raises
          /\ Handler(c, [hist[c] EXCEPT !.creates = @ + 1])
    /\ NoDirectoryCall
    /\ UNCHANGED <<usage, cache, detections, sem_value, sem_waiters, member,
                   best, ap>>
    /\ CheckFrame

\* `await db_session.commit()` of check_user; the detection dict is returned.
Commit(c) ==
    /\ pc[c] = "commit"
    /\ \/ /\ NoFault
          /\ cache' = CommittedCache(c)
          /\ detections' = detections \cup session[c].det
          /\ session' = [session EXCEPT ![c] = EmptySession]
          /\ hist' = [hist EXCEPT ![c] = Committed(c, @)]
          /\ result' = [result EXCEPT ![c] = "detection"]
          /\ pc' = [pc EXCEPT ![c] = "done"]
       \/ /\ Fault              \* the commit raises
          /\ Handler(c, hist[c])
          /\ UNCHANGED <<cache, detections>>
    /\ NoDirectoryCall
    /\ UNCHANGED <<usage, sem_value, sem_waiters, member, best, ap>>
    /\ CheckFrame

(***************************************************************************)
(* refresh_streamer_cache, run with a session of its own                   *)
(***************************************************************************)
MaxRefreshes == 2     \* refresh_streamer_cache calls in one behaviour

NoRefresh ==
    [pc |-> "idle", id |-> NoId, existing |-> FALSE,
     follower_failed |-> FALSE, result |-> "none", ext |-> 0, runs |-> 0]

\* Variables no step of a refresh touches.
RefreshFrame ==
    UNCHANGED <<scVars, requests_per_minute, lock_holder, lock_waiters, now,
                rl_pc, rl_wake, usage, directory, member_pool, detections,
                sem_value, sem_waiters, pc, member, session, best, ap, result,
                hist, pureVars>>

\* An update that leaves last_updated as it was.
RefreshedRowUnstamped(id, follower_failed, hashed, old) ==
    [present |-> TRUE,
     twitch_user_id |-> id,
     follower_count |-> IF follower_failed THEN 0 ELSE DirFollowers(id),
     has_discord_link |-> DirHasLink(id),
     description |-> DirHasBio(id),
     profile_image_hash |-> hashed,
     cache_hits |-> old.cache_hits,
     last_updated |-> old.last_updated]

\* An update that keeps the stored follower count when get_follower_count
\* failed.
RefreshedRowKeepingFollowers(id, follower_failed, hashed, old) ==
    IF old.present
    THEN [old EXCEPT !.follower_count =
                         IF follower_failed THEN @ ELSE DirFollowers(id),
                     !.has_discord_link = DirHasLink(id),
                     !.description = DirHasBio(id),
                     !.profile_image_hash = hashed,
                     !.last_updated = @ + 1]
    ELSE [NewRow(id, FALSE, hashed) EXCEPT
              !.follower_count =
                  IF follower_failed THEN 0 ELSE DirFollowers(id)]

\* The row StreamerCacheRepository.update / create leaves for identity id.
\* update() sets the keyword fields and stamps last_updated; the key
\* twitch_user_id is not among the keywords.  hashed: whether the row ends
\* with an image hash (the kept one, or what _get_avatar_hash returned).
RefreshedRow(id, follower_failed, hashed, old) ==
    IF old.present
    THEN [old EXCEPT !.follower_count =
                         IF follower_failed THEN 0 ELSE DirFollowers(id),
                     !.has_discord_link = DirHasLink(id),
                     !.description = DirHasBio(id),
                     !.profile_image_hash = hashed,
                     !.last_updated = @ + 1]
    ELSE [NewRow(id, FALSE, hashed) EXCEPT
              !.follower_count =
                  IF follower_failed THEN 0 ELSE DirFollowers(id)]

\* Both `except` clauses: rollback, return False.
RefreshFails ==
    refresh' = [refresh EXCEPT !.pc = "idle", !.result = "False"]

\* refresh_streamer_cache(twitch_user_id) is called: get_user_profile is
\* issued.
RefreshStart ==
    /\ refresh.pc = "idle"
    /\ refresh.runs < MaxRefreshes
    /\ \E id \in Ids :
         refresh' = [pc |-> "rf_profile", id |-> id, existing |-> FALSE,
                     follower_failed |-> FALSE, result |-> "none",
                     ext |-> refresh.ext + 1, runs |-> refresh.runs + 1]
    /\ DirectoryCalls(1)
    /\ NoFault
    /\ UNCHANGED cache
    /\ RefreshFrame

\* get_user_profile returns; get_follower_count is issued.
RefreshProfile ==
    /\ refresh.pc = "rf_profile"
    /\ \/ /\ NoFault
          /\ DirectoryCalls(1)
          /\ refresh' = [refresh EXCEPT !.pc = "rf_followers",
                                        !.ext = @ + 1]
       \/ /\ Fault              \* TwitchAPIError
          /\ NoDirectoryCall
          /\ RefreshFails
    /\ UNCHANGED cache
    /\ RefreshFrame

\* get_follower_count returns (or raises: follower_count = 0);
\* get_by_twitch_id is issued.
RefreshFollowers ==
    /\ refresh.pc = "rf_followers"
    /\ \/ /\ NoFault
          /\ refresh' = [refresh EXCEPT !.pc = "rf_lookup"]
       \/ /\ Fault
          /\ refresh' = [refresh EXCEPT !.pc = "rf_lookup",
                                        !.follower_failed = TRUE]
    /\ NoDirectoryCall
    /\ UNCHANGED cache
    /\ RefreshFrame

\* get_by_twitch_id returns.
RefreshLookup ==
    /\ refresh.pc = "rf_lookup"
    /\ \/ /\ NoFault
          /\ refresh' = [refresh EXCEPT !.pc = "rf_store",
                                        !.existing = cache[refresh.id].present]
       \/ /\ Fault
          /\ RefreshFails
    /\ NoDirectoryCall
    /\ UNCHANGED cache
    /\ RefreshFrame

\* update or create, then commit.
RefreshStore ==
    /\ refresh.pc = "rf_store"
    /\ LET id == refresh.id IN
       \/ /\ refresh.existing \/ ~cache[id].present
          /\ \A c \in Checks : ~session[c].adds[id].present
          /\ \E hashed \in BOOLEAN :
               cache' = [cache EXCEPT ![id] =
                             RefreshedRow(id, refresh.follower_failed,
                                          hashed, @)]
          /\ refresh' = [refresh EXCEPT !.pc = "idle", !.result = "True"]
          /\ NoFault
       \/ /\ ~refresh.existing /\ cache[id].present    \* IntegrityError
          /\ RefreshFails
          /\ NoFault
          /\ UNCHANGED cache
       \/ /\ Fault              \* flush or commit raises
          /\ RefreshFails
          /\ UNCHANGED cache
    /\ NoDirectoryCall
    /\ RefreshFrame

(***************************************************************************)
(* Usernames.  A username is a sequence of one-character strings.          *)
(***************************************************************************)
Digits   == {"0", "1", "2", "3", "4", "5", "6", "7", "8", "9"}
Stripped == {"_", "-", " ", "."}        \* re.sub(r"[_\-\s\.]", "", ...)

\* str.lower() on one character.
LowerChar(ch) ==
    CASE ch = "A" -> "a"
      [] ch = "O" -> "o"
      [] OTHER -> ch

Lower(u) == [k \in 1..Len(u) |-> LowerChar(u[k])]

\* Code point of a character, for the ordering sorted() uses.
CharCode(ch) ==
    CASE ch = " " -> 32 [] ch = "-" -> 45 [] ch = "." -> 46
      [] ch = "0" -> 48 [] ch = "1" -> 49 [] ch = "A" -> 65
      [] ch = "O" -> 79 [] ch = "_" -> 95 [] ch = "a" -> 97
      [] ch = "i" -> 105 [] ch = "l" -> 108 [] ch = "o" -> 111
      [] OTHER -> 128

\* u <= v in Python's string order.
RECURSIVE StrLeq(_, _)
StrLeq(u, v) ==
    IF u = <<>> THEN TRUE
    ELSE IF v = <<>> THEN FALSE
    ELSE IF Head(u) = Head(v) THEN StrLeq(Tail(u), Tail(v))
    ELSE CharCode(Head(u)) < CharCode(Head(v))

\* A removal that removes nothing.
KeepAll(u, drop) == u

\* The characters of u that are not in the set drop, in order.
RECURSIVE Without(_, _)
Without(u, drop) ==
    IF u = <<>> THEN <<>>
    ELSE IF Head(u) \in drop THEN Without(Tail(u), drop)
    ELSE <<Head(u)>> \o Without(Tail(u), drop)

\* str.replace(ch, by)
RECURSIVE Replace(_, _, _)
Replace(u, ch, by) ==
    IF u = <<>> THEN <<>>
    ELSE (IF Head(u) = ch THEN by ELSE <<Head(u)>>) \o Replace(Tail(u), ch, by)

\* `u in v`
Contains(v, u) ==
    \E k \in 0..(Len(v) - Len(u)) : SubSeq(v, k + 1, k + Len(u)) = u

\* Levenshtein.distance(u, v)
RECURSIVE LevenshteinDistance(_, _)
LevenshteinDistance(u, v) ==
    IF u = <<>> THEN Len(v)
    ELSE IF v = <<>> THEN Len(u)
    ELSE IF Head(u) = Head(v) THEN LevenshteinDistance(Tail(u), Tail(v))
    ELSE LET del == LevenshteinDistance(Tail(u), v)
             ins == LevenshteinDistance(u, Tail(v))
             sub == LevenshteinDistance(Tail(u), Tail(v))
             least == IF del <= ins /\ del <= sub THEN del
                      ELSE IF ins <= sub THEN ins ELSE sub
         IN  1 + least

\* Length of the longest common subsequence, on which rapidfuzz's
\* fuzz.ratio is built: ratio = 100 * 2 * lcs / (len(u) + len(v)).
RECURSIVE LongestCommon(_, _)
LongestCommon(u, v) ==
    IF u = <<>> \/ v = <<>> THEN 0
    ELSE IF Head(u) = Head(v) THEN 1 + LongestCommon(Tail(u), Tail(v))
    ELSE LET x == LongestCommon(Tail(u), v)
             y == LongestCommon(u, Tail(v))
         IN  IF x >= y THEN x ELSE y

(***************************************************************************)
(* _normalize_username and _check_impersonation_patterns                   *)
(***************************************************************************)
NormalizeUsername(username) == Without(Lower(username), Stripped)

Min(x, y) == IF x <= y THEN x ELSE y
Abs(x) == IF x < 0 THEN -x ELSE x

\* _check_impersonation_patterns, in whole points (0..100).
CheckImpersonationPatterns(username1, username2) ==
    LET norm1 == NormalizeUsername(username1)
        norm2 == NormalizeUsername(username2)
        base1 == Without(norm1, Digits)
        base2 == Without(norm2, Digits)
        numbers == IF base1 # <<>> /\ base2 # <<>> /\ base1 = base2
                   THEN 50 ELSE 0
        substituted1 == Replace(Replace(norm1, "0", <<"o">>), "1", <<"i", "l">>)
        substituted2 == Replace(Replace(norm2, "0", <<"o">>), "1", <<"i", "l">>)
        substitution ==
            IF \/ substituted1 = substituted2
               \/ Contains(substituted2, substituted1)
               \/ Contains(substituted1, substituted2)
            THEN 30 ELSE 0
        len_diff == Abs(Len(norm1) - Len(norm2))
        containment ==
            IF Contains(norm2, norm1) \/ Contains(norm1, norm2)
            THEN (IF len_diff <= 5 THEN 40 ELSE IF len_diff <= 10 THEN 20 ELSE 0)
            ELSE 0
    IN  Min(numbers + substitution + containment, 100)

(***************************************************************************)
(* _calculate_username_similarity and its memo cache.  Similarities are    *)
(* kept in hundredths (10000 = 100.0), the precision round(x, 2) keeps.    *)
(***************************************************************************)
SimCacheCap  == 2       \* entries the memo cache may hold (10000 in the code)
MaxSimCalls  == 4       \* similarity calls made in one behaviour
MaxHandleLen == 3       \* longest username drawn as an input
Hundred      == 10000   \* 100.0 in hundredths

\* Entries dropped when the cap is exceeded: a tenth of the cap (1000).
SimCacheEvict == (SimCacheCap + 9) \div 10

\* A key that keeps the order of the arguments.
CacheKeyUnsorted(username1, username2) ==
    <<Lower(username1), Lower(username2)>>

\* sorted([username1.lower(), username2.lower()]) as a tuple
CacheKey(username1, username2) ==
    LET l1 == Lower(username1)
        l2 == Lower(username2)
    IN  IF StrLeq(l1, l2) THEN <<l1, l2>> ELSE <<l2, l1>>

\* Position of key in the memo cache, 0 when absent.
CachePosition(memo, key) ==
    IF \E k \in 1..Len(memo) : memo[k].key = key
    THEN CHOOSE k \in 1..Len(memo) : memo[k].key = key
    ELSE 0

\* round(lev * 0.5 + ratio * 0.3 + pattern * 0.2, 2) for two different,
\* non-empty normalized names, in hundredths.
WeightedSimilarity(username1, username2, norm1, norm2) ==
    LET max_len == IF Len(norm1) >= Len(norm2) THEN Len(norm1) ELSE Len(norm2)
        sum_len == Len(norm1) + Len(norm2)
        lev_distance == LevenshteinDistance(norm1, norm2)
        common == LongestCommon(norm1, norm2)
        pattern_score == CheckImpersonationPatterns(username1, username2)
        den == max_len * sum_len
        num == 5000 * (max_len - lev_distance) * sum_len
                 + 6000 * common * max_len
                 + 20 * pattern_score * den
    IN  (2 * num + den) \div (2 * den)

\* The memo cache after `self._similarity_cache[cache_key] = result` and
\* the size limit that follows it on the computed path.
StoreAndLimit(memo, key, value) ==
    LET stored == Append(memo, [key |-> key, value |-> value])
    IN  IF Len(stored) > SimCacheCap
        THEN SubSeq(stored, SimCacheEvict + 1, Len(stored))
        ELSE stored

\* One call of _calculate_username_similarity: what it returns and the
\* memo cache it leaves.
SimilarityCall(memo, username1, username2) ==
    LET key == CacheKey(username1, username2)
        pos == CachePosition(memo, key)
        norm1 == NormalizeUsername(username1)
        norm2 == NormalizeUsername(username2)
    IN  IF pos > 0
        THEN [result |-> memo[pos].value, cache |-> memo, key |-> key,
              hit |-> TRUE]
        ELSE IF norm1 = <<>> \/ norm2 = <<>>
        THEN [result |-> 0, cache |-> memo, key |-> key, hit |-> FALSE]
        ELSE IF norm1 = norm2
        THEN [result |-> Hundred,
              cache |-> Append(memo, [key |-> key, value |-> Hundred]),
              key |-> key, hit |-> FALSE]
        ELSE LET value == WeightedSimilarity(username1, username2, norm1, norm2)
             IN  [result |-> value, cache |-> StoreAndLimit(memo, key, value),
                  key |-> key, hit |-> FALSE]

NoCalls == [calls |-> 0, seen |-> {}]

\* Variables the pure-function calls leave alone.
PureFrame == UNCHANGED <<scVars, rlVars, envVars, dbVars, chkVars>>

\* _calculate_username_similarity(username1, username2) is called.
SimilarityStep(username1, username2) ==
    LET c == SimilarityCall(similarity_cache, username1, username2) IN
    /\ similarity_cache' = c.cache
    /\ sim_out' = c.result
    /\ sim_hist' = [calls |-> sim_hist.calls + 1,
                    seen |-> sim_hist.seen \cup
                               {[a |-> username1, b |-> username2,
                                 key |-> c.key, value |-> c.result]}]

\* The usernames the memo-cache behaviours draw from: two names with the
\* same normal form, a numbered variant, an unrelated name and a name that
\* normalizes to nothing.
CacheHandles ==
    {<<"a">>, <<"A", "_">>, <<"a", "1">>, <<"o">>, <<"_">>}

\* A caller asks for the similarity of any two of the names.
SimilarityOfAny ==
    /\ sim_hist.calls < MaxSimCalls
    /\ \E username1 \in CacheHandles, username2 \in CacheHandles :
         /\ handles' = <<username1, username2>>
         /\ SimilarityStep(username1, username2)
    /\ UNCHANGED <<pat_out, age_in, age_out, search, fetch,
                   avatar_hash_cache, hash_call,
                   events, moderation>>
    /\ PureFrame

\* Every username of 1..MaxHandleLen characters over a small alphabet.
Alphabet == {"a", "o", "A", "0", "1", "_"}

HandlesUpTo(n) == UNION {[1..k -> Alphabet] : k \in 1..n}

\* _calculate_username_similarity is called on the pair under test, with an
\* empty memo cache.
SimilarityOfPair ==
    /\ sim_out = NoResult
    /\ SimilarityStep(handles[1], handles[2])
    /\ UNCHANGED <<handles, pat_out, age_in, age_out, search, fetch,
                   avatar_hash_cache, hash_call,
                   events, moderation>>
    /\ PureFrame

\* _check_impersonation_patterns is called on the pair under test.
PatternsOfPair ==
    /\ pat_out = NoResult
    /\ pat_out' = CheckImpersonationPatterns(handles[1], handles[2])
    /\ UNCHANGED <<handles, similarity_cache, sim_out, sim_hist, age_in,
                   age_out, search, fetch,
                   avatar_hash_cache, hash_call,
                   events, moderation>>
    /\ PureFrame

(***************************************************************************)
(* _calculate_account_age_days.  Time is counted in quarter days.  A       *)
(* datetime is its wall-clock reading, whether it carries a tzinfo         *)
(* (aware) and, when it does, its UTC offset.                              *)
(***************************************************************************)
MaxClock == 12          \* largest wall-clock reading, in quarter days
QuartersPerDay == 4
UtcOffsets == {-1, 0, 1}

AwareDatetimes ==
    [wall : 0..MaxClock, aware : {TRUE}, utcoffset : UtcOffsets]

NaiveDatetimes ==
    [wall : 0..MaxClock, aware : {FALSE}, utcoffset : {0}]

\* The instant an aware datetime denotes, on the UTC time line.
UtcInstant(dt) == dt.wall - dt.utcoffset

\* A naive value read as local time one quarter day east of UTC.
NaiveAsLocal(created_at) ==
    IF ~created_at.aware
    THEN [created_at EXCEPT !.aware = TRUE, !.utcoffset = 1]
    ELSE created_at

\* created_at.replace(tzinfo=timezone.utc) when created_at is naive.
NormalizedCreated(created_at) ==
    IF ~created_at.aware
    THEN [created_at EXCEPT !.aware = TRUE, !.utcoffset = 0]
    ELSE created_at

\* timedelta.days of a difference of delta quarter days: the floor.
TimedeltaDays(delta) == delta \div QuartersPerDay

\* _calculate_account_age_days(created_at, current_time), current_time
\* aware (the caller passes none: datetime.now(timezone.utc)).
CalculateAccountAgeDays(created_at, current_time) ==
    LET age_delta == UtcInstant(current_time)
                       - UtcInstant(NormalizedCreated(created_at))
    IN  IF TimedeltaDays(age_delta) > 0 THEN TimedeltaDays(age_delta) ELSE 0

\* The function is called on the arguments under test.
AccountAgeCall ==
    /\ age_out = NoResult
    /\ age_out' = CalculateAccountAgeDays(age_in.created_at,
                                          age_in.current_time)
    /\ UNCHANGED <<handles, similarity_cache, sim_out, pat_out, sim_hist,
                   age_in, search, fetch,
                   avatar_hash_cache, hash_call,
                   events, moderation>>
    /\ PureFrame

(***************************************************************************)
(* StreamerCacheRepository.search_by_similarity.  The two statements       *)
(* filter on the length of twitch_username only, so a username is kept as  *)
(* its length.  The session is an AsyncSession on postgresql+asyncpg with  *)
(* autocommit off: its statements run inside one transaction.              *)
(***************************************************************************)
MaxNameLen == 7       \* longest username searched for
DefaultLimit == 50    \* limit: int = 50
MinWindowLen == 3     \* min_len = max(3, username_len - 3)
WindowSlack == 3      \* max_len = username_len + 3

\* The streamer_cache rows a behaviour may start with; last_updated values
\* are distinct, so ORDER BY last_updated DESC has one answer.
StoredRows ==
    { [id |-> 1, name_len |-> 2,  last_updated |-> 4],
      [id |-> 2, name_len |-> 3,  last_updated |-> 1],
      [id |-> 3, name_len |-> 5,  last_updated |-> 3],
      [id |-> 4, name_len |-> 10, last_updated |-> 2] }

NoSearch ==
    [pc |-> "idle", table |-> {}, username |-> 0, limit |-> 0,
     tx |-> "open", trigram |-> "none", matches |-> <<>>,
     outcome |-> "none", out |-> <<>>]

\* Variables no step of a search touches.
SearchFrame ==
    /\ UNCHANGED <<handles, similarity_cache, sim_out, pat_out, sim_hist,
                   age_in, age_out, fetch,
                   avatar_hash_cache, hash_call,
                   events, moderation>>
    /\ PureFrame

\* A window without the floor on min_len.
InPlainWindow(row, username_len) ==
    /\ username_len - WindowSlack <= row.name_len
    /\ row.name_len <= username_len + WindowSlack

\* twitch_username ~ '^.{min_len,max_len}$'
InLengthWindow(row, username_len) ==
    LET min_len == IF username_len - WindowSlack > MinWindowLen
                   THEN username_len - WindowSlack ELSE MinWindowLen
        max_len == username_len + WindowSlack
    IN  min_len <= row.name_len /\ row.name_len <= max_len

\* rows, most recently updated first.
RECURSIVE ByLastUpdatedDesc(_)
ByLastUpdatedDesc(rows) ==
    IF rows = {} THEN <<>>
    ELSE LET newest == CHOOSE r \in rows :
                           \A o \in rows : o.last_updated <= r.last_updated
         IN  <<newest>> \o ByLastUpdatedDesc(rows \ {newest})

\* .limit(limit)
Limited(rows, limit) ==
    IF Len(rows) <= limit THEN rows ELSE SubSeq(rows, 1, limit)

\* get_candidates_for_username(session, username, limit) on a session whose
\* transaction is healthy.
GetCandidatesForUsername(table, username_len, limit) ==
    Limited(ByLastUpdatedDesc({r \in table : InLengthWindow(r, username_len)}),
            limit)

\* What the trigram statement can return: the rows of the length window
\* that pg_trgm finds similar, in the order of their similarity, cut at
\* limit.  Which rows are similar, and how similar, is pg_trgm's choice.
TrigramResults(table, username_len, limit) ==
    LET window == {r \in table : InLengthWindow(r, username_len)} IN
    UNION { { m \in [1..Cardinality(similar) -> similar] :
                \A i, j \in DOMAIN m : i # j => m[i] # m[j] } :
            similar \in SUBSET window }

\* search_by_similarity(session, username, limit) is called; `if not
\* username: return []`, otherwise the trigram statement is issued.
SearchBySimilarity ==
    /\ search.pc = "idle"
    /\ \E username_len \in 0..MaxNameLen, limit \in {1, DefaultLimit} :
         search' = IF username_len = 0
                   THEN [search EXCEPT !.pc = "done",
                                       !.outcome = "returned",
                                       !.out = <<>>]
                   ELSE [search EXCEPT !.pc = "trigram",
                                       !.username = username_len,
                                       !.limit = limit]
    /\ SearchFrame

\* session.execute(stmt) of the trigram statement completes.
TrigramExecutes ==
    /\ search.pc = "trigram"
    /\ \/ \E m \in TrigramResults(search.table, search.username,
                                    search.limit) :
             LET matches == Limited(m, search.limit) IN
             search' = IF matches # <<>>
                       THEN [search EXCEPT !.pc = "done",
                                           !.trigram = "matches",
                                           !.matches = matches,
                                           !.outcome = "returned",
                                           !.out = matches]
                       ELSE [search EXCEPT !.pc = "scan",
                                           !.trigram = "empty"]
       \* ProgrammingError (pg_trgm missing): caught and logged.  The
       \* failed statement leaves the session's transaction aborted.
       \/ search' = [search EXCEPT !.pc = "scan",
                                   !.trigram = "ProgrammingError",
                                   !.tx = "aborted"]
       \* any other exception is not caught
       \/ search' = [search EXCEPT !.pc = "done",
                                   !.trigram = "OtherError",
                                   !.tx = "aborted",
                                   !.outcome = "raised"]
    /\ SearchFrame

\* get_candidates_for_username: its session.execute completes.  In an
\* aborted transaction PostgreSQL refuses every statement until rollback,
\* and the error propagates out of search_by_similarity.
ScanExecutes ==
    /\ search.pc = "scan"
    /\ search' = IF search.tx = "aborted"
                 THEN [search EXCEPT !.pc = "done", !.outcome = "raised"]
                 ELSE [search EXCEPT
                          !.pc = "done",
                          !.outcome = "returned",
                          !.out = GetCandidatesForUsername(
                                      search.table, search.username,
                                      search.limit)]
    /\ SearchFrame

(***************************************************************************)
(* _fetch_image_bytes: one GET of an avatar URL                            *)
(***************************************************************************)
\* `max_bytes: int = 2_000_000`
MaxBytes == 2000000

BodySizes == {0, 1, MaxBytes, MaxBytes + 1}

\* The Content-Length header: absent, a number n, or text int() rejects.
ContentLengths ==
    {[kind |-> "absent", n |-> 0], [kind |-> "garbage", n |-> 0]}
        \cup [kind : {"number"}, n : BodySizes]

\* The Content-Type header; "absent" reads as "".
ContentTypes == {"image/png", "image/jpeg", "text/html", "absent"}

\* What the server answers: body is the length of the body it sends.
Responses ==
    [status_code : {200, 404}, content_length : ContentLengths,
     content_type : ContentTypes, body : BodySizes]

\* error: the GET raises (connection, timeout, protocol) after `partial`
\* bytes of the body have arrived.
NoFetch ==
    [pc |-> "idle", error |-> FALSE, partial |-> 0,
     response |-> [status_code |-> 200,
                   content_length |-> [kind |-> "absent", n |-> 0],
                   content_type |-> "absent", body |-> 0],
     downloaded |-> 0, outcome |-> "none", content |-> 0]

\* Variables no step of a fetch touches.
FetchFrame ==
    /\ UNCHANGED <<handles, similarity_cache, sim_out, pat_out, sim_hist,
                   age_in, age_out, search, avatar_hash_cache, hash_call,
                   events, moderation>>
    /\ PureFrame

\* `if content_length:` ... `int(content_length) > max_bytes`, a ValueError
\* being passed over.
DeclaredTooLarge(content_length, max_bytes) ==
    content_length.kind = "number" /\ content_length.n > max_bytes

\* `response.headers.get("content-type", "").startswith("image/")`
IsImage(content_type) == content_type \in {"image/png", "image/jpeg"}

\* The tests on a received response: "None" or "content".
FetchResult(response, max_bytes) ==
    IF response.status_code # 200 THEN "None"
    ELSE IF DeclaredTooLarge(response.content_length, max_bytes) THEN "None"
    ELSE IF response.body > max_bytes THEN "None"
    ELSE IF ~IsImage(response.content_type) THEN "None"
    ELSE "content"

\* _fetch_image_bytes(url) is called: the client is opened and the GET sent.
FetchImageBytes ==
    /\ fetch.pc = "idle"
    /\ fetch' = [fetch EXCEPT !.pc = "get"]
    /\ FetchFrame

\* `await client.get(url, timeout=5.0)` raises; `except Exception` returns
\* None.
ClientGetRaises ==
    /\ fetch.pc = "get"
    /\ fetch.error
    /\ fetch' = [fetch EXCEPT !.pc = "done", !.downloaded = fetch.partial,
                              !.outcome = "None"]
    /\ FetchFrame

\* `await client.get(url, timeout=5.0)` returns: the response is not
\* streamed, so its whole body has been read; then the tests of lines
\* 585-597.
ClientGetReturns ==
    /\ fetch.pc = "get"
    /\ ~fetch.error
    /\ LET outcome == FetchResult(fetch.response, MaxBytes) IN
       fetch' = [fetch EXCEPT
                   !.pc = "done",
                   !.downloaded = fetch.response.body,
                   !.outcome = outcome,
                   !.content = IF outcome = "content"
                               THEN fetch.response.body ELSE 0]
    /\ FetchFrame

(***************************************************************************)
(* _get_avatar_hash: the per-URL cache of image hashes                     *)
(***************************************************************************)
\* `self._avatar_hash_cache_limit = 2000`, scaled down.
AvatarCacheLimit == 3

\* `for _ in range(200)`, scaled down with the limit.
EvictCount == 2

MaxUrls == 5
NumHashTasks == 2

Urls == 1..MaxUrls
HashTasks == 1..NumHashTasks

\* The 64-bit dHash of the image behind a url; 0 is a hash like any other.
HashOf(url) == url % 2

NoHashCall == [pc |-> "idle", url |-> 0, out |-> NoResult, evicted |-> FALSE]

IdleHashes ==
    /\ avatar_hash_cache = <<>>
    /\ hash_call = [t \in HashTasks |-> NoHashCall]

\* Variables no step of a hash lookup touches.
HashFrame ==
    /\ UNCHANGED <<handles, similarity_cache, sim_out, pat_out, sim_hist,
                   age_in, age_out, search, fetch, events,
                   moderation>>
    /\ PureFrame

CachedUrls(memo) == {memo[k].url : k \in DOMAIN memo}

\* `self._avatar_hash_cache.get(url)`: the stored hash, or NoResult (None).
CacheGet(memo, url) ==
    IF url \in CachedUrls(memo)
    THEN (CHOOSE e \in {memo[k] : k \in DOMAIN memo} : e.url = url).hash
    ELSE NoResult

\* A test of the cached value by truthiness.
IsTruthy(cached) == cached # NoResult /\ cached # 0

\* `if cached is not None`
IsNotNone(cached) == cached # NoResult

\* `self._avatar_hash_cache[url] = avatar_hash`: a present key keeps its
\* place, a new key goes last.
CachePut(memo, url, hash) ==
    IF url \in CachedUrls(memo)
    THEN [k \in DOMAIN memo |->
            IF memo[k].url = url THEN [url |-> url, hash |-> hash]
            ELSE memo[k]]
    ELSE Append(memo, [url |-> url, hash |-> hash])

RECURSIVE PopOldest(_, _)
\* `pop(next(iter(cache)))`, n times.
PopOldest(memo, n) ==
    IF n = 0 THEN memo ELSE PopOldest(Tail(memo), n - 1)

\* An insertion that never evicts.
StoreUnbounded(memo, url, hash) == CachePut(memo, url, hash)

\* Lines 572-575: store, then evict when the limit is exceeded.
StoreHash(memo, url, hash) ==
    LET stored == CachePut(memo, url, hash) IN
    IF Len(stored) > AvatarCacheLimit
    THEN PopOldest(stored, EvictCount)
    ELSE stored

\* _get_avatar_hash(url) is called by task t: a cached hash is returned,
\* else the image fetch is started.
GetAvatarHash(t) ==
    /\ hash_call[t].pc = "idle"
    /\ \E url \in Urls :
         LET cached == CacheGet(avatar_hash_cache, url) IN
         hash_call' = [hash_call EXCEPT ![t] =
             IF IsNotNone(cached)
             THEN [pc |-> "idle", url |-> url, out |-> cached,
                   evicted |-> FALSE]
             ELSE [pc |-> "fetch", url |-> url, out |-> NoResult,
                   evicted |-> FALSE]]
    /\ UNCHANGED avatar_hash_cache
    /\ HashFrame

\* `await self._fetch_image_bytes(url)` returns no bytes, or _compute_dhash
\* returns None: None is returned.
HashUnavailable(t) ==
    /\ hash_call[t].pc = "fetch"
    /\ hash_call' = [hash_call EXCEPT ![t].pc = "idle", ![t].out = NoResult]
    /\ UNCHANGED avatar_hash_cache
    /\ HashFrame

\* The image was fetched and hashed: lines 572-577.
HashComputed(t) ==
    /\ hash_call[t].pc = "fetch"
    /\ LET url == hash_call[t].url
           avatar_hash == HashOf(url)
       IN /\ avatar_hash_cache' =
                StoreHash(avatar_hash_cache, url, avatar_hash)
          /\ hash_call' = [hash_call EXCEPT
                ![t].pc = "idle", ![t].out = avatar_hash,
                ![t].evicted =
                    Len(CachePut(avatar_hash_cache, url, avatar_hash))
                        > AvatarCacheLimit]
    /\ HashFrame

(***************************************************************************)
(* on_member_join and check_impersonation_daily: who is checked            *)
(***************************************************************************)
MaxMembers == 2

\* A guild member: verified = a verification record exists for the member.
People == [verified : BOOLEAN, bot : BOOLEAN]

\* The guild's configuration row, if any.
GuildConfigs ==
    [configured : {TRUE}, impersonation_detection_enabled : BOOLEAN]
        \cup {[configured |-> FALSE,
                impersonation_detection_enabled |-> FALSE]}

\* guild.members in every order and number up to MaxMembers.
MemberLists == UNION {[1..n -> People] : n \in 0..MaxMembers}

\* called: the members check_user was called for, in call order.
NoEvents ==
    [pc |-> "idle", handler |-> "none",
     guild |-> [configured |-> FALSE,
                impersonation_detection_enabled |-> FALSE],
     members |-> <<>>, i |-> 0, called |-> <<>>]

\* Variables no step of a handler touches.
EventFrame ==
    /\ UNCHANGED <<handles, similarity_cache, sim_out, pat_out, sim_hist,
                   age_in, age_out, search, fetch, avatar_hash_cache,
                   hash_call, moderation>>
    /\ PureFrame

\* on_member_join(member) starts: the guild configuration is requested.
OnMemberJoin ==
    /\ events.pc = "idle"
    /\ Len(events.members) = 1
    /\ events' = [events EXCEPT !.pc = "join_config", !.handler = "join",
                                !.i = 1]
    /\ EventFrame

\* events.py lines 41-54: no configuration ends the handler, else the
\* member's verification is requested.
JoinConfigLoaded ==
    /\ events.pc = "join_config"
    /\ events' = [events EXCEPT !.pc = IF events.guild.configured
                                       THEN "join_verification" ELSE "done"]
    /\ EventFrame

\* events.py lines 56-101: a member without verification ends the handler;
\* a verified one has the nickname reapplied and then, when detection is
\* enabled for the guild and the member is not a bot, check_user is called.
JoinVerificationLoaded ==
    /\ events.pc = "join_verification"
    /\ LET joined == events.members[1] IN
       events' =
         IF ~joined.verified
         THEN [events EXCEPT !.pc = "done"]
         ELSE IF events.guild.impersonation_detection_enabled /\ ~joined.bot
         THEN [events EXCEPT !.pc = "done", !.called = Append(@, joined)]
         ELSE [events EXCEPT !.pc = "done"]
    /\ EventFrame

\* check_impersonation_daily starts: all guild configurations are requested.
CheckImpersonationDaily ==
    /\ events.pc = "idle"
    /\ events' = [events EXCEPT !.pc = "daily_config", !.handler = "daily"]
    /\ EventFrame

\* tasks.py lines 318-352: only guilds with detection enabled are scanned.
DailyConfigsLoaded ==
    /\ events.pc = "daily_config"
    /\ events' =
         IF events.guild.configured
              /\ events.guild.impersonation_detection_enabled
         THEN [events EXCEPT !.pc = "daily_member", !.i = 1]
         ELSE [events EXCEPT !.pc = "done"]
    /\ EventFrame

\* tasks.py lines 357-368: the next member; a bot is skipped, for any other
\* member the verification is requested; after the last member the scan
\* of the guild ends.
DailyNextMember ==
    /\ events.pc = "daily_member"
    /\ events' =
         IF events.i > Len(events.members)
         THEN [events EXCEPT !.pc = "done"]
         ELSE IF events.members[events.i].bot
         THEN [events EXCEPT !.i = @ + 1]
         ELSE [events EXCEPT !.pc = "daily_verification"]
    /\ EventFrame

\* tasks.py lines 369-381: a verified member is skipped, any other is
\* handed to check_user.
DailyVerificationLoaded ==
    /\ events.pc = "daily_verification"
    /\ LET scanned == events.members[events.i] IN
       events' =
         IF scanned.verified
         THEN [events EXCEPT !.pc = "daily_member", !.i = @ + 1]
         ELSE [events EXCEPT !.pc = "daily_member", !.i = @ + 1,
                             !.called = Append(@, scanned)]
    /\ EventFrame

(***************************************************************************)
(* Moderation: execute_action, /whitelist remove and the whitelist test    *)
(* of check_user, each on a database session of its own                    *)
(***************************************************************************)
NumGuilds == 2      \* guilds
NumUsers == 2       \* members, each present in every guild
MaxActions == 2     \* moderator actions and removals in one behaviour

Guilds == 1..NumGuilds
Users  == 1..NumUsers

\* The Detections under review: two of every (guild, member) pair.
Detections ==
    {[guild_id |-> g, discord_user_id |-> u, nr |-> k] :
        g \in Guilds, u \in Users, k \in 1..2}

NoDetection == [guild_id |-> 0, discord_user_id |-> 0, nr |-> 0]

\* The actions of execute_action that touch no Discord member.
Actions == {"mark_safe", "false_positive"}

\* whitelist: the committed impersonation_whitelist rows as (guild, user)
\* pairs; status: the committed status of every Detection; act: the
\* execute_action call under way, with the rows its session has flushed;
\* cmd: the /whitelist remove command under way; chk: the check_user call
\* under way; acts: moderator calls made so far.
NoModeration ==
    [whitelist |-> {},
     status |-> [d \in Detections |-> "pending"],
     act |-> [pc |-> "idle", det |-> NoDetection, action |-> "none",
              status |-> "none", added |-> {}, ok |-> "none"],
     cmd |-> [pc |-> "idle", guild_id |-> 0, discord_user_id |-> 0,
              deleted |-> "none"],
     chk |-> [pc |-> "idle", guild_id |-> 0, discord_user_id |-> 0,
              result |-> "none"],
     acts |-> 0]

\* Variables no step of the moderation calls touches.
ModerationFrame ==
    /\ UNCHANGED <<handles, similarity_cache, sim_out, pat_out, sim_hist,
                   age_in, age_out, search, fetch, avatar_hash_cache,
                   hash_call, events>>
    /\ PureFrame

\* A whitelist test that looks at the member alone.
IsWhitelistedInAnyGuild(rows, discord_user_id, guild_id) ==
    \E g \in Guilds : <<g, discord_user_id>> \in rows

\* ImpersonationWhitelistRepository.is_whitelisted
IsWhitelisted(rows, discord_user_id, guild_id) ==
    <<guild_id, discord_user_id>> \in rows

\* The status execute_action writes for an action.
StatusOf(action) ==
    IF action = "false_positive" THEN "false_positive" ELSE "reviewed_safe"

\* execute_action(db_session, detection, action, moderator) is called.
ExecuteAction(d, action) ==
    /\ moderation.act.pc \in {"idle", "done"}
    /\ moderation.acts < MaxActions
    /\ moderation' =
         [moderation EXCEPT
            !.acts = @ + 1,
            !.act = [pc |-> IF action = "false_positive"
                            THEN "create" ELSE "update_status",
                     det |-> d, action |-> action,
                     status |-> StatusOf(action), added |-> {},
                     ok |-> "none"]]
    /\ ModerationFrame

\* ImpersonationWhitelistRepository.create: the flush of the new row
\* violates the unique index on (guild_id, discord_user_id) when the pair
\* is whitelisted; create rolls back and raises, the handler of
\* execute_action rolls back and returns False.
WhitelistCreate ==
    /\ moderation.act.pc = "create"
    /\ LET d == moderation.act.det IN
       moderation' =
         IF IsWhitelisted(moderation.whitelist, d.discord_user_id, d.guild_id)
         THEN [moderation EXCEPT !.act.pc = "done", !.act.added = {},
                                 !.act.ok = "False"]
         ELSE [moderation EXCEPT
                 !.act.pc = "update_status",
                 !.act.added = {<<d.guild_id, d.discord_user_id>>}]
    /\ ModerationFrame

\* ImpersonationDetectionRepository.update_status and the audit log row,
\* flushed in the session of the call.
UpdateStatus ==
    /\ moderation.act.pc = "update_status"
    /\ moderation' = [moderation EXCEPT !.act.pc = "commit"]
    /\ ModerationFrame

\* db_session.commit() of execute_action: the flushed rows become visible
\* and the call returns True, or the commit raises and the handler rolls
\* back and returns False.
CommitAction ==
    /\ moderation.act.pc = "commit"
    /\ \/ moderation' =
            [moderation EXCEPT
               !.whitelist = @ \cup moderation.act.added,
               !.status[moderation.act.det] = moderation.act.status,
               !.act.pc = "done", !.act.ok = "True"]
       \/ moderation' =
            [moderation EXCEPT !.act.pc = "done", !.act.added = {},
                               !.act.ok = "False"]
    /\ ModerationFrame

\* /whitelist remove: ImpersonationWhitelistRepository.delete in the
\* session of the command.
WhitelistDelete(g, u) ==
    /\ moderation.cmd.pc \in {"idle", "done"}
    /\ moderation.acts < MaxActions
    /\ moderation' =
         [moderation EXCEPT
            !.acts = @ + 1,
            !.cmd = [pc |-> "commit", guild_id |-> g, discord_user_id |-> u,
                     deleted |-> IF IsWhitelisted(moderation.whitelist, u, g)
                                 THEN "True" ELSE "False"]]
    /\ ModerationFrame

\* The commit of the command.
CommitDelete ==
    /\ moderation.cmd.pc = "commit"
    /\ moderation' =
         [moderation EXCEPT
            !.whitelist = @ \ {<<moderation.cmd.guild_id,
                                 moderation.cmd.discord_user_id>>},
            !.cmd.pc = "done"]
    /\ ModerationFrame

\* check_user(db_session, member, guild_id, guild_config, trigger) is called.
CheckUserCalled(g, u) ==
    /\ moderation.chk.pc \in {"idle", "done"}
    /\ moderation' =
         [moderation EXCEPT
            !.chk = [pc |-> "is_whitelisted", guild_id |-> g,
                     discord_user_id |-> u, result |-> "none"]]
    /\ ModerationFrame

\* The whitelist query of check_user answers: a whitelisted member ends the
\* check with None, any other goes on to the trusted-role test and the
\* candidate lookup; a query that raises ends the check with None.
WhitelistChecked ==
    /\ moderation.chk.pc = "is_whitelisted"
    /\ \/ moderation' =
            [moderation EXCEPT
               !.chk.pc = "done",
               !.chk.result =
                  IF IsWhitelisted(moderation.whitelist,
                                   moderation.chk.discord_user_id,
                                   moderation.chk.guild_id)
                  THEN "None" ELSE "continues"]
       \/ moderation' =
            [moderation EXCEPT !.chk.pc = "done", !.chk.result = "raised"]
    /\ ModerationFrame

(***************************************************************************)
(* Specifications                                                          *)
(***************************************************************************)
\* Values of the variables a specification does not exercise.
IdleScore ==
    /\ sc_a = [username_similarity |-> 0, account_age_days |-> 0,
               bio_similarity |-> 0, follower_count |-> 0,
               has_discord_link |-> FALSE, avatar_similarity |-> 0]
    /\ sc_b = sc_a
    /\ sc_ra = NoScore
    /\ sc_rb = NoScore

IdlePure ==
    /\ handles = <<<<>>, <<>>>>
    /\ similarity_cache = <<>>
    /\ sim_out = NoResult
    /\ pat_out = NoResult
    /\ sim_hist = NoCalls
    /\ age_in = <<>>
    /\ age_out = NoResult
    /\ search = NoSearch
    /\ fetch = NoFetch
    /\ IdleHashes
    /\ events = NoEvents
    /\ moderation = NoModeration

InitLimiter(ceiling) ==
    /\ requests_per_minute = ceiling
    /\ request_times = <<>>
    /\ lock_holder = NoTask
    /\ lock_waiters = <<>>
    /\ now = 0
    /\ rl_pc = [t \in Tasks |-> "idle"]
    /\ rl_wake = [t \in Tasks |-> 0]
    /\ recorded = <<>>
    /\ usage = <<0, ceiling>>

InitChecks(n, dir, pool, nfaults, rows) ==
    /\ directory = dir
    /\ member_pool = pool
    /\ faults = nfaults
    /\ cache = rows
    /\ detections = {}
    /\ sem_value = SemPermits
    /\ sem_waiters = <<>>
    /\ pc = [c \in 1..n |-> "idle"]
    /\ member = [c \in 1..n |-> CHOOSE m \in Members : TRUE]
    /\ session = [c \in 1..n |-> EmptySession]
    /\ best = [c \in 1..n |-> NoBest]
    /\ ap = [c \in 1..n |-> NoAp]
    /\ result = [c \in 1..n |-> "none"]
    /\ hist = [c \in 1..n |-> NoHist]
    /\ refresh = NoRefresh

\* A committed row as an earlier, successful auto-populate left it.
SeedRow(id) == NewRow(id, FALSE, TRUE)

\* A committed row last updated more than the staleness age ago.
StaleRow(id) == [SeedRow(id) EXCEPT !.last_updated = 0]

\* ---- the scorer
InitScoreSpec ==
    /\ InitScore
    /\ IdlePure
    /\ InitLimiter(RLCeiling)
    /\ InitChecks(0, {}, {}, 0, [i \in Ids |-> EmptyRow])

NextScore == SetSignal \/ Score

SpecScore == InitScoreSpec /\ [][NextScore]_vars

\* ---- the rate limiter under concurrent callers
InitRLSpec ==
    /\ IdleScore
    /\ IdlePure
    /\ InitLimiter(RLCeiling)
    /\ InitChecks(0, {}, {}, 0, [i \in Ids |-> EmptyRow])

NextRL ==
    \/ \E t \in Tasks : Acquire(t) \/ LockResume(t) \/ WakeUp(t)
    \/ GetCurrentUsage
    \/ Tick

SpecRL == InitRLSpec /\ [][NextRL]_vars

\* ---- the same limiter with a clock that keeps advancing and an event
\* loop that runs every task that is ready
TaskStep(t) == LockResume(t) \/ WakeUp(t)

SpecRLLive ==
    /\ InitRLSpec
    /\ [][NextRL]_vars
    /\ WF_vars(Tick)
    /\ \A t \in 1..NumTasks : WF_vars(TaskStep(t))

\* ---- concurrent checks against one store
Init ==
    /\ IdleScore
    /\ IdlePure
    /\ InitLimiter(GlobalCeiling)
    /\ \E seeded \in SUBSET Ids :
         InitChecks(NumChecks, Ids, Members, MaxFaults,
                    [i \in Ids |-> IF i \in seeded THEN SeedRow(i)
                                   ELSE EmptyRow])

Next ==
    \E c \in 1..NumChecks :
        \/ CheckUser(c) \/ Lookup(c)
        \/ Search(c) \/ ApLookup(c) \/ ApFetch(c) \/ ApStore(c) \/ ApCommit(c)
        \/ Lookup2(c) \/ Avatar(c) \/ CreateDetection(c) \/ Commit(c)

Spec == Init /\ [][Next]_vars

\* ---- one check and the cache refresh sharing the limiter and the store
InitDir ==
    /\ IdleScore
    /\ IdlePure
    /\ InitLimiter(GlobalCeiling)
    /\ \E seeded \in SUBSET Ids :
         InitChecks(1, Ids, {m \in Members : ~Bypassed(m)}, MaxFaults,
                    [i \in Ids |-> IF i \in seeded THEN StaleRow(i)
                                   ELSE EmptyRow])

NextDir ==
    \/ \E c \in 1..1 :
        \/ CheckUser(c) \/ Lookup(c)
        \/ Search(c) \/ ApLookup(c) \/ ApFetch(c) \/ ApStore(c) \/ ApCommit(c)
        \/ Lookup2(c) \/ Avatar(c) \/ CreateDetection(c) \/ Commit(c)
    \/ RefreshStart \/ RefreshProfile \/ RefreshFollowers
    \/ RefreshLookup \/ RefreshStore

SpecDir == InitDir /\ [][NextDir]_vars

\* ---- the similarity memo cache under any sequence of calls
InitSimCache ==
    /\ IdleScore
    /\ IdlePure
    /\ InitLimiter(RLCeiling)
    /\ InitChecks(0, {}, {}, 0, [i \in Ids |-> EmptyRow])

NextSimCache == SimilarityOfAny

SpecSimCache == InitSimCache /\ [][NextSimCache]_vars

\* ---- the similarity and pattern functions on every pair of usernames
InitHandle ==
    /\ IdleScore
    /\ handles \in HandlesUpTo(MaxHandleLen) \X HandlesUpTo(MaxHandleLen)
    /\ similarity_cache = <<>>
    /\ sim_out = NoResult
    /\ pat_out = NoResult
    /\ sim_hist = NoCalls
    /\ age_in = <<>>
    /\ age_out = NoResult
    /\ search = NoSearch
    /\ fetch = NoFetch
    /\ IdleHashes
    /\ events = NoEvents
    /\ moderation = NoModeration
    /\ InitLimiter(RLCeiling)
    /\ InitChecks(0, {}, {}, 0, [i \in Ids |-> EmptyRow])

NextHandle == SimilarityOfPair \/ PatternsOfPair

SpecHandle == InitHandle /\ [][NextHandle]_vars

\* ---- one search_by_similarity call against any stored rows
InitSearch ==
    /\ IdleScore
    /\ handles = <<<<>>, <<>>>>
    /\ similarity_cache = <<>>
    /\ sim_out = NoResult
    /\ pat_out = NoResult
    /\ sim_hist = NoCalls
    /\ age_in = <<>>
    /\ age_out = NoResult
    /\ \E table \in SUBSET StoredRows :
         search = [NoSearch EXCEPT !.table = table]
    /\ fetch = NoFetch
    /\ IdleHashes
    /\ events = NoEvents
    /\ moderation = NoModeration
    /\ InitLimiter(RLCeiling)
    /\ InitChecks(0, {}, {}, 0, [i \in Ids |-> EmptyRow])

NextSearch == SearchBySimilarity \/ TrigramExecutes \/ ScanExecutes

SpecSearch == InitSearch /\ [][NextSearch]_vars

\* ---- the account age of every creation time at every reference time
InitAge ==
    /\ IdleScore
    /\ handles = <<<<>>, <<>>>>
    /\ similarity_cache = <<>>
    /\ sim_out = NoResult
    /\ pat_out = NoResult
    /\ sim_hist = NoCalls
    /\ age_in \in [created_at : AwareDatetimes \cup NaiveDatetimes,
                    current_time : AwareDatetimes]
    /\ age_out = NoResult
    /\ search = NoSearch
    /\ fetch = NoFetch
    /\ IdleHashes
    /\ events = NoEvents
    /\ moderation = NoModeration
    /\ InitLimiter(RLCeiling)
    /\ InitChecks(0, {}, {}, 0, [i \in Ids |-> EmptyRow])

NextAge == AccountAgeCall

SpecAge == InitAge /\ [][NextAge]_vars

\* ---- one _fetch_image_bytes call against every answer of the server
InitFetch ==
    /\ IdleScore
    /\ handles = <<<<>>, <<>>>>
    /\ similarity_cache = <<>>
    /\ sim_out = NoResult
    /\ pat_out = NoResult
    /\ sim_hist = NoCalls
    /\ age_in = <<>>
    /\ age_out = NoResult
    /\ search = NoSearch
    /\ \E response \in Responses, error \in BOOLEAN :
         \E partial \in {n \in BodySizes : n <= response.body} :
             fetch = [NoFetch EXCEPT !.response = response,
                                     !.error = error,
                                     !.partial = IF error THEN partial ELSE 0]
    /\ IdleHashes
    /\ events = NoEvents
    /\ moderation = NoModeration
    /\ InitLimiter(RLCeiling)
    /\ InitChecks(0, {}, {}, 0, [i \in Ids |-> EmptyRow])

NextFetch == FetchImageBytes \/ ClientGetRaises \/ ClientGetReturns

SpecFetch == InitFetch /\ [][NextFetch]_vars

\* ---- concurrent _get_avatar_hash calls on one service
InitHashes ==
    /\ IdleScore
    /\ IdlePure
    /\ InitLimiter(RLCeiling)
    /\ InitChecks(0, {}, {}, 0, [i \in Ids |-> EmptyRow])

NextHashes ==
    \/ \E t \in 1..NumHashTasks : GetAvatarHash(t)
    \/ \E t \in 1..NumHashTasks : HashUnavailable(t)
    \/ \E t \in 1..NumHashTasks : HashComputed(t)

SpecHashes == InitHashes /\ [][NextHashes]_vars

\* ---- one member join or one daily scan, for every guild and membership
InitEvents ==
    /\ IdleScore
    /\ handles = <<<<>>, <<>>>>
    /\ similarity_cache = <<>>
    /\ sim_out = NoResult
    /\ pat_out = NoResult
    /\ sim_hist = NoCalls
    /\ age_in = <<>>
    /\ age_out = NoResult
    /\ search = NoSearch
    /\ fetch = NoFetch
    /\ IdleHashes
    /\ \E guild \in GuildConfigs, members \in MemberLists :
         events = [NoEvents EXCEPT !.guild = guild, !.members = members]
    /\ moderation = NoModeration
    /\ InitLimiter(RLCeiling)
    /\ InitChecks(0, {}, {}, 0, [i \in Ids |-> EmptyRow])

NextEvents ==
    \/ OnMemberJoin
    \/ JoinConfigLoaded
    \/ JoinVerificationLoaded
    \/ CheckImpersonationDaily
    \/ DailyConfigsLoaded
    \/ DailyNextMember
    \/ DailyVerificationLoaded

SpecEvents == InitEvents /\ [][NextEvents]_vars

\* ---- moderator actions, whitelist removals and checks, interleaved
InitModeration ==
    /\ IdleScore
    /\ IdlePure
    /\ InitLimiter(RLCeiling)
    /\ InitChecks(0, {}, {}, 0, [i \in Ids |-> EmptyRow])

NextModeration ==
    \/ \E d \in Detections, action \in Actions : ExecuteAction(d, action)
    \/ WhitelistCreate
    \/ UpdateStatus
    \/ CommitAction
    \/ \E g \in 1..NumGuilds, u \in 1..NumUsers : WhitelistDelete(g, u)
    \/ CommitDelete
    \/ \E g \in 1..NumGuilds, u \in 1..NumUsers : CheckUserCalled(g, u)
    \/ WhitelistChecked

SpecModeration == InitModeration /\ [][NextModeration]_vars

\* ---- more checks than semaphore permits, all needing auto-populate,
\* against an empty cache and a directory that knows nobody
InitSem ==
    /\ IdleScore
    /\ IdlePure
    /\ InitLimiter(GlobalCeiling)
    /\ InitChecks(SemPermits + 1, {}, {m \in Members : m.age > 365}, 0,
                  [i \in Ids |-> EmptyRow])

NextSem ==
    \E c \in 1..(SemPermits + 1) :
        CheckUser(c) \/ Lookup(c) \/ SemResume(c) \/ Search(c)

SpecSem == InitSem /\ [][NextSem]_vars

\* ---- the same checks with directory errors, every started step of a
\* check being completed (each awaited call returns or raises)
InitSemLive ==
    /\ IdleScore
    /\ IdlePure
    /\ InitLimiter(GlobalCeiling)
    /\ InitChecks(SemPermits + 1, {}, {m \in Members : m.age > 365},
                  MaxFaults, [i \in Ids |-> EmptyRow])

CheckStep(c) == CheckUser(c) \/ Lookup(c) \/ SemResume(c) \/ Search(c)

SpecSemLive ==
    /\ InitSemLive
    /\ [][NextSem]_vars
    /\ \A c \in 1..(SemPermits + 1) : WF_vars(CheckStep(c))

(***************************************************************************)
(* Properties of the scorer (SpecScore)                                    *)
(***************************************************************************)
SumOfBuckets(r) ==
    r.username_similarity_score + r.account_age_score + r.bio_match_score
        + r.streamer_popularity_score + r.discord_absence_score
        + r.avatar_match_score

\* C9: the total score returned by the scorer equals the sum of its six
\* bucket scores and lies in the closed range 0..100.
C9_TotalIsSumWithin100 ==
    sc_ra # NoScore =>
        /\ sc_ra.total_score = SumOfBuckets(sc_ra)
        /\ 0 <= sc_ra.total_score
        /\ sc_ra.total_score <= 100

\* The scorer has been called on the two argument tuples.
Scored == sc_ra # NoScore /\ sc_rb # NoScore

\* C10 as stated: with the other five signals fixed, raising any one of the
\* six signals (for the link flag: from absent to present) never lowers
\* that signal's bucket score.
C10_EveryBucketNonDecreasing ==
    Scored =>
        /\ sc_ra.username_similarity_score <= sc_rb.username_similarity_score
        /\ sc_ra.account_age_score <= sc_rb.account_age_score
        /\ sc_ra.bio_match_score <= sc_rb.bio_match_score
        /\ sc_ra.streamer_popularity_score <= sc_rb.streamer_popularity_score
        /\ sc_ra.discord_absence_score <= sc_rb.discord_absence_score
        /\ sc_ra.avatar_match_score <= sc_rb.avatar_match_score

\* C10 as the scorer behaves: with the other five signals fixed, the
\* username, bio and avatar buckets never fall when their similarity rises;
\* the account-age bucket never rises when the age rises; the link bucket
\* never rises when the link goes from absent to present; the follower
\* bucket never falls while the count stays at or below 50,000 and never
\* rises once the count is at or above 1,000.
C10_BucketDirections ==
    Scored =>
        /\ sc_ra.username_similarity_score <= sc_rb.username_similarity_score
        /\ sc_ra.bio_match_score <= sc_rb.bio_match_score
        /\ sc_ra.avatar_match_score <= sc_rb.avatar_match_score
        /\ sc_ra.account_age_score >= sc_rb.account_age_score
        /\ sc_ra.discord_absence_score >= sc_rb.discord_absence_score
        /\ (sc_b.follower_count <= 50000 =>
               sc_ra.streamer_popularity_score
                   <= sc_rb.streamer_popularity_score)
        /\ (sc_a.follower_count >= 1000 =>
               sc_ra.streamer_popularity_score
                   >= sc_rb.streamer_popularity_score)

\* The username similarity was raised from the 75-84 band into the 85-94
\* band and the scorer was called.
C10_RaisedAcrossBuckets ==
    /\ Scored
    /\ sc_a.username_similarity = 84
    /\ sc_b.username_similarity = 85
    /\ sc_ra.username_similarity_score < sc_rb.username_similarity_score

\* The reference policy table: <<threshold, points>> rows, first match wins.
PolicyUsername == <<<<95, 40>>, <<85, 30>>, <<75, 20>>, <<65, 10>>>>
PolicyAge      == <<<<7, 20>>, <<30, 15>>, <<90, 10>>, <<180, 5>>, <<365, 2>>>>
PolicyBio      == <<<<100, 20>>, <<90, 15>>, <<70, 10>>, <<50, 5>>>>
PolicyAvatar   == <<<<90, 10>>, <<80, 5>>>>
PolicyTier     == <<<<80, "critical">>, <<60, "high">>, <<40, "medium">>>>

\* Points of the first row whose threshold x reaches (atleast) or stays
\* within (~atleast); otherwise the default.
RECURSIVE PolicyLookup(_, _, _, _)
PolicyLookup(table, x, atleast, default) ==
    IF table = <<>> THEN default
    ELSE IF (atleast /\ x >= Head(table)[1]) \/ (~atleast /\ x <= Head(table)[1])
    THEN Head(table)[2]
    ELSE PolicyLookup(Tail(table), x, atleast, default)

MatchesPolicy(in, r) ==
    /\ r.username_similarity_score
         = PolicyLookup(PolicyUsername, in.username_similarity, TRUE, 0)
    /\ r.account_age_score
         = PolicyLookup(PolicyAge, in.account_age_days, FALSE, 0)
    /\ r.bio_match_score = PolicyLookup(PolicyBio, in.bio_similarity, TRUE, 0)
    /\ (1000 <= in.follower_count /\ in.follower_count <= 50000
          => r.streamer_popularity_score = 10)
    /\ (~in.has_discord_link => r.discord_absence_score = 10)
    /\ r.avatar_match_score
         = PolicyLookup(PolicyAvatar, in.avatar_similarity, TRUE, 0)
    /\ r.risk_level = PolicyLookup(PolicyTier, r.total_score, TRUE, "low")

\* The two worked examples of the policy.
HarmlessInput ==
    [username_similarity |-> 0, account_age_days |-> 1001,
     bio_similarity |-> 0, follower_count |-> 0, has_discord_link |-> TRUE,
     avatar_similarity |-> 0]

BlatantInput ==
    [username_similarity |-> 96, account_age_days |-> 2,
     bio_similarity |-> 100, follower_count |-> 10000,
     has_discord_link |-> FALSE, avatar_similarity |-> 0]

MatchesExamples(in, r) ==
    /\ (in = HarmlessInput => r.total_score = 0 /\ r.risk_level = "low")
    /\ (in = BlatantInput => r.total_score = 100 /\ r.risk_level = "critical")

\* C11: for every input the bucket scores and the tier returned by the
\* scorer are those of the reference policy table; the harmless example
\* scores 0 / low and the blatant example scores 100 / critical.
C11_ScorerMatchesPolicyTable ==
    Scored =>
        /\ MatchesPolicy(sc_a, sc_ra) /\ MatchesExamples(sc_a, sc_ra)
        /\ MatchesPolicy(sc_b, sc_rb) /\ MatchesExamples(sc_b, sc_rb)

\* The scorer was called on the harmless example.
C11_HarmlessScored ==
    /\ Scored
    /\ sc_a.account_age_days = 366
    /\ sc_b = HarmlessInput
    /\ sc_rb.total_score = 0

\* The scorer was called on the blatant example.
C11_BlatantScored ==
    Scored /\ sc_a = BlatantInput /\ sc_ra.risk_level = "critical"

(***************************************************************************)
(* Properties of the rate limiter (SpecRL)                                 *)
(***************************************************************************)
\* Tasks inside the critical section of acquire() between two steps: the
\* ones suspended in asyncio.sleep.
InCriticalSection == {t \in Tasks : rl_pc[t] = "sleeping"}

\* C5: at most one caller is inside the critical section of acquire() at a
\* time (and it is the lock holder), and the recorded timestamps younger
\* than 60 seconds never outnumber the ceiling.
C5_ExclusiveAndBelowCeiling ==
    /\ Cardinality(InCriticalSection) <= 1
    /\ \A t \in InCriticalSection : lock_holder = t
    /\ CurrentCount(request_times, now) <= requests_per_minute
    /\ CurrentCount(recorded, now) <= requests_per_minute

\* One caller sleeps inside the critical section with the window full
\* while another caller is queued for the lock.
C5_FullWindowWithWaiter ==
    \E t \in Tasks, u \in Tasks :
        /\ rl_pc[t] = "sleeping"
        /\ rl_pc[u] = "waiting"
        /\ CurrentCount(request_times, now) = requests_per_minute

\* C6: with ceiling N, the timestamp recorded by the (N+1)th acquire() is
\* at least 60 seconds later than the one recorded by the first; the same
\* holds for every acquire() and the one N calls before it.
C6_CeilingPlusOneWaitsAWindow ==
    \A i \in 1..Len(recorded) :
        i + requests_per_minute <= Len(recorded) =>
            recorded[i + requests_per_minute] - recorded[i] >= Window

\* N acquire() calls were recorded at the same instant, a further caller
\* slept, and its timestamp was recorded exactly one window later.
C6_BlockedCallerRecorded ==
    /\ Len(recorded) > requests_per_minute
    /\ recorded[requests_per_minute] = recorded[1]
    /\ recorded[requests_per_minute + 1] = recorded[1] + Window
    /\ \E t \in Tasks : rl_pc[t] = "idle" /\ rl_wake[t] = recorded[1] + Window

(***************************************************************************)
(* Properties of the auto-populate semaphore (SpecSem)                     *)
(***************************************************************************)
\* Checks that are inside _auto_populate_cache.
InAutoPopulate ==
    {c \in Checks :
        pc[c] \in {"ap_search", "ap_lookup", "ap_fetch", "ap_store",
                   "ap_commit"}}

\* C7: at most 5 auto-populate runs are in progress at any instant; a
\* check that needs auto-populate while 5 are running is queued on the
\* semaphore and has issued no directory call.
C7_AtMostFiveAutoPopulates ==
    /\ Cardinality(InAutoPopulate) <= SemPermits
    /\ sem_value = SemPermits - Cardinality(InAutoPopulate)
    /\ \A c \in Checks :
          pc[c] = "sem_wait" =>
              /\ hist[c].populates = 0
              /\ hist[c].ext = 0
              /\ \E k \in DOMAIN sem_waiters : sem_waiters[k] = c

\* Five auto-populate runs are in progress and a sixth check is queued.
C7_SixthCheckQueued ==
    /\ Cardinality(InAutoPopulate) = SemPermits
    /\ \E c \in Checks : pc[c] = "sem_wait"

(***************************************************************************)
(* Properties of check_user (Spec)                                         *)
(***************************************************************************)
\* C1: a Detection is created, and a check returns a detection, only when
\* the best candidate's final total score (avatar bonus included) is at
\* least 40; a check that ends below 40 or without a candidate returns no
\* detection and never calls Detection create.
C1_DetectionFloor ==
    /\ \A d \in detections : d.total_score >= MinReportThreshold
    /\ \A c \in Checks :
          /\ \A d \in session[c].det : d.total_score >= MinReportThreshold
          /\ (hist[c].creates > 0 \/ result[c] = "detection" =>
                 /\ best[c].id # NoId
                 /\ best[c].score >= MinReportThreshold
                 /\ best[c].scores.total_score = best[c].score)
          /\ (pc[c] = "done"
                 /\ (best[c].id = NoId \/ best[c].score < MinReportThreshold)
               => result[c] = "None" /\ hist[c].creates = 0)

\* A check scored a candidate above zero and below 40, went through
\* auto-populate and finished without failure.
C1_FinishedBelowFloor ==
    \E c \in Checks :
        /\ pc[c] = "done"
        /\ ~hist[c].failed
        /\ hist[c].populates > 0
        /\ best[c].id # NoId
        /\ best[c].score > 0
        /\ best[c].score < MinReportThreshold

\* C2: a whitelisted member, and a member holding a trusted role, gets no
\* detection whatever the similarity, and the check has by then made no
\* candidate lookup, scored nothing, started no auto-populate, issued no
\* directory call and written nothing.
C2_BypassBeforeAnyWork ==
    \A c \in Checks :
        pc[c] # "idle" /\ (member[c].whitelisted \/ member[c].trusted) =>
            /\ pc[c] = "done"
            /\ result[c] = "None"
            /\ hist[c].lookups = 0
            /\ hist[c].scored = 0
            /\ hist[c].populates = 0
            /\ hist[c].ext = 0
            /\ hist[c].writes = 0
            /\ hist[c].creates = 0

\* A whitelisted member and a trusted member were both checked while the
\* cache held a close look-alike.
C2_BypassedWithLookAlike ==
    \E c \in Checks, d \in Checks, i \in Ids :
        /\ pc[c] = "done" /\ member[c].whitelisted
        /\ pc[d] = "done" /\ member[d].trusted /\ ~member[d].whitelisted
        /\ cache[i].present /\ NameSimilarity(i) >= 95

C12_CacheWithinCap ==
    Len(similarity_cache) <= SimCacheCap

\* C13: the similarity of any non-empty username with itself is 100, also
\* when the username consists only of characters that normalization
\* strips.
C13_SelfSimilarityIsHundred ==
    sim_out # NoResult /\ handles[1] # <<>> /\ handles[1] = handles[2]
        => sim_out = Hundred

\* C14: after any history of similarity calls, the two orders of a pair of
\* usernames have returned the same value and used the same cache key, the
\* memo cache holds at most one entry per key, and a cached entry holds
\* the value returned for its pair.
C14_SymmetricOnePerPair ==
    /\ \A r1 \in sim_hist.seen, r2 \in sim_hist.seen :
          r1.a = r2.b /\ r1.b = r2.a =>
              r1.value = r2.value /\ r1.key = r2.key
    /\ \A j \in 1..Len(similarity_cache), k \in 1..Len(similarity_cache) :
          similarity_cache[j].key = similarity_cache[k].key => j = k
    /\ \A r \in sim_hist.seen, k \in 1..Len(similarity_cache) :
          similarity_cache[k].key = r.key => similarity_cache[k].value = r.value

\* Both orders of a pair of different usernames were asked for, the value
\* was computed (neither 0 nor 100), and its entry is in the memo cache.
C14_BothOrdersAsked ==
    \E r1 \in sim_hist.seen, r2 \in sim_hist.seen :
        /\ r1.a = r2.b /\ r1.b = r2.a /\ r1.a # r1.b
        /\ 0 < r1.value /\ r1.value < Hundred
        /\ CachePosition(similarity_cache, r1.key) > 0

\* u is made of characters of the set only.
Only(u, chars) == \A k \in 1..Len(u) : u[k] \in chars

\* The two usernames are one non-empty alphabetic base followed by digits
\* (possibly none).
SameBaseTrailingDigits(u, v) ==
    \E n \in 1..Min(Len(u), Len(v)) :
        /\ SubSeq(u, 1, n) = SubSeq(v, 1, n)
        /\ Only(SubSeq(u, 1, n), Alphabet \ (Digits \cup Stripped))
        /\ Only(SubSeq(u, n + 1, Len(u)), Digits)
        /\ Only(SubSeq(v, n + 1, Len(v)), Digits)

\* C20: for two usernames that share a non-empty alphabetic base and
\* differ only by trailing digits, the pattern score is at least 50 and at
\* most 100.
C20_TrailingDigitsScoreAtLeast50 ==
    pat_out # NoResult /\ SameBaseTrailingDigits(handles[1], handles[2]) =>
        pat_out >= 50 /\ pat_out <= 100

\* The pattern check ran on "a1" and "a0": same base, different digits,
\* neither contains the other.
C20_DifferentNumbersChecked ==
    /\ handles = << <<"a", "1">>, <<"a", "0">> >>
    /\ pat_out = 50

(***************************************************************************)
(* Properties of auto-populate and refresh (Spec, SpecDir)                 *)
(***************************************************************************)
\* Check c handles one search result that is already cached.
HandlesCachedResult(c) ==
    /\ pc[c] = "ap_lookup"
    /\ VisibleRow(c, ap[c].results[ap[c].i]).present
    /\ ap'[c] # ap[c]

\* A row with its hit counter left out.
SansHits(row) == [row EXCEPT !.cache_hits = 0]

\* C15: for a search result that is already cached, auto-populate issues
\* no directory call, inserts nothing, adds exactly one to that identity's
\* hit counter and does not count it as added; and no step of a check
\* changes any other field of a cached identity.
C15_CachedResultOnlyCountsHit ==
    [][/\ \A c \in Checks :
            HandlesCachedResult(c) =>
                LET id == ap[c].results[ap[c].i] IN
                /\ hist'[c].ext = hist[c].ext
                /\ recorded' = recorded
                /\ session'[c].adds = session[c].adds
                /\ session'[c].hits =
                      [session[c].hits EXCEPT ![id] = @ + 1]
                /\ ap'[c].added = ap[c].added
                /\ cache' = cache
       /\ \A i \in Ids :
            cache[i].present => SansHits(cache'[i]) = SansHits(cache[i])
      ]_vars

\* An auto-populate found only cached identities: it made the search call
\* alone, committed a hit and no insert, and the check ended without a
\* second lookup.
C15_OnlyHitsCommitted ==
    \E c \in Checks, i \in Ids :
        /\ pc[c] = "done"
        /\ hist[c].populates = 1
        /\ hist[c].ext = 1
        /\ hist[c].hits > 0
        /\ hist[c].committed = {}
        /\ hist[c].lookups = 1
        /\ cache[i].cache_hits > 0

\* The refresh of an identity found in the cache stores its update.
RefreshUpdates ==
    /\ refresh.pc = "rf_store"
    /\ refresh.existing
    /\ refresh'.result = "True"

\* C16: a refresh of an identity that is already cached sets its mutable
\* fields to the fetched values and stamps last_updated, leaves its
\* twitch_user_id as it was, and neither adds nor removes a cache entry.
C16_RefreshUpdatesInPlace ==
    [][RefreshUpdates =>
         LET id == refresh.id IN
         /\ cache'[id].follower_count =
               (IF refresh.follower_failed THEN 0 ELSE DirFollowers(id))
         /\ cache'[id].has_discord_link = DirHasLink(id)
         /\ cache'[id].description = DirHasBio(id)
         /\ cache'[id].last_updated > cache[id].last_updated
         /\ cache'[id].twitch_user_id = cache[id].twitch_user_id
         /\ cache'[id].twitch_user_id = id
         /\ \A i \in Ids : cache'[i].present = cache[i].present
         /\ \A i \in Ids \ {id} : cache'[i] = cache[i]
      ]_vars

\* A refresh has updated a cached identity that was refreshed before.
C16_RefreshedTwice ==
    /\ refresh.result = "True"
    /\ refresh.existing
    /\ cache[refresh.id].last_updated >= 2
    /\ refresh.runs = 2

(***************************************************************************)
(* get_current_usage (SpecRL)                                              *)
(***************************************************************************)
\* The timestamps of q less than 60 seconds old at time t.
LessThanWindowOld(q, t) == SelectSeq(q, LAMBDA stamp : t - stamp < Window)

\* C17: a call of get_current_usage returns the number of recorded
\* timestamps less than 60 seconds old together with the ceiling, and
\* leaves the limiter as it was: the timestamps, the lock, its waiters and
\* every caller's position are unchanged, so a later acquire cannot tell
\* that the call was made.
C17_UsageIsReadOnly ==
    [][usage' # usage =>
         /\ usage' = <<Len(LessThanWindowOld(request_times, now)),
                       requests_per_minute>>
         /\ request_times' = request_times
         /\ recorded' = recorded
         /\ requests_per_minute' = requests_per_minute
         /\ lock_holder' = lock_holder
         /\ lock_waiters' = lock_waiters
         /\ rl_pc' = rl_pc
         /\ rl_wake' = rl_wake
         /\ now' = now
      ]_vars

\* get_current_usage was called while the deque still held a timestamp
\* older than the window next to a younger one.
C17_UsageSkipsExpired ==
    /\ usage[1] > 0
    /\ usage[1] < Len(request_times)
    /\ usage[1] = Len(LessThanWindowOld(request_times, now))

(***************************************************************************)
(* search_by_similarity (SpecSearch)                                       *)
(***************************************************************************)
\* C18: when the trigram statement fails because pg_trgm is unavailable,
\* search_by_similarity does not raise and returns what the length-window
\* scan returns for the same username and limit; it returns the same when
\* the trigram statement matches nothing, and returns the trigram matches
\* unchanged when there is at least one.
C18_FallsBackToLengthWindowScan ==
    search.pc = "done" =>
        /\ (search.trigram \in {"ProgrammingError", "empty"} =>
               /\ search.outcome = "returned"
               /\ search.out = GetCandidatesForUsername(
                                   search.table, search.username,
                                   search.limit))
        /\ (search.trigram = "matches" =>
               /\ search.outcome = "returned"
               /\ search.out = search.matches)

(***************************************************************************)
(* _calculate_account_age_days (SpecAge)                                   *)
(***************************************************************************)
\* Quarter days from the creation time to the reference time, a creation
\* time without timezone taken as UTC.
Elapsed ==
    LET created == age_in.created_at
        reference == age_in.current_time
    IN  (reference.wall - reference.utcoffset)
          - (created.wall - (IF created.aware THEN created.utcoffset
                             ELSE 0))

\* C19: the account age is the number of whole days elapsed from the
\* creation time to the reference time, a creation time without timezone
\* being read as UTC; it is never negative, and a creation time after the
\* reference time gives 0.
C19_AgeIsWholeElapsedDays ==
    age_out # NoResult =>
        /\ age_out >= 0
        /\ (Elapsed >= 0 =>
               /\ age_out * QuartersPerDay <= Elapsed
               /\ Elapsed < (age_out + 1) * QuartersPerDay)
        /\ (Elapsed < 0 => age_out = 0)

\* The age of a creation time without timezone was computed: more than a
\* whole day and a broken part of a day before the reference time.
C19_NaiveCreationAged ==
    /\ age_out >= 1
    /\ ~age_in.created_at.aware
    /\ age_in.current_time.utcoffset # 0
    /\ Elapsed % QuartersPerDay # 0

(***************************************************************************)
(* When auto-populate runs (Spec)                                          *)
(***************************************************************************)
\* Check c has started auto-populate or is queued for its permit.
AutoPopulateTriggered(c) == hist[c].populates > 0 \/ pc[c] = "sem_wait"

\* C21: a check triggers auto-populate exactly when no cached candidate of
\* its first pass reached username similarity 65 (no candidate at all
\* included); a check in which some candidate reached 65 runs no
\* auto-populate and makes no directory call.
C21_AutoPopulateIffNoneReachedFloor ==
    \A c \in Checks :
        hist[c].passes >= 1 =>
            /\ (AutoPopulateTriggered(c) <=> hist[c].reached = {})
            /\ (hist[c].reached # {} => hist[c].ext = 0)

\* C22: a check runs auto-populate at most once, so it makes at most one
\* directory search; it scores at most twice, and the second scoring pass
\* happens only after an auto-populate that returned at least 1.
C22_AutoPopulateAtMostOnce ==
    \A c \in Checks :
        /\ hist[c].populates <= 1
        /\ hist[c].passes <= 2
        /\ hist[c].lookups <= 2
        /\ (pc[c] = "lookup2" \/ hist[c].lookups = 2 =>
               /\ hist[c].populates = 1
               /\ ap[c].returned >= 1)
        /\ (pc[c] = "done" /\ ap[c].returned = 0 => hist[c].lookups <= 1)

\* A check re-scored after its auto-populate, ended with a best total
\* still below 65 and did not populate again.
C22_RescoredStillBelow ==
    \E c \in Checks :
        /\ pc[c] = "done"
        /\ ~hist[c].failed
        /\ hist[c].populates = 1
        /\ hist[c].passes = 2
        /\ best[c].id # NoId
        /\ best[c].score < MinSimilarity

\* C23: a failure on one search result (a directory error on its profile
\* or follower fetch, or a failed insert) does not end the auto-populate
\* call: every search result is handled before the call commits, and a
\* call whose commit succeeded has committed every identity it inserted.
C23_FailedResultDoesNotAbort ==
    \A c \in Checks :
        /\ (pc[c] = "ap_commit" => hist[c].handled = Len(ap[c].results))
        /\ (ap[c].returned >= 1 => hist[c].inserted \subseteq hist[c].committed)

\* C24: the number an auto-populate call returns is the number of new
\* identities the call committed to the cache, also when one of its
\* inserts met a uniqueness conflict with a concurrent check; the check
\* scores a second time exactly when its call committed a new identity.
C24_ReturnedCountIsCommittedCount ==
    \A c \in Checks :
        ap[c].returned # NoResult =>
            /\ ap[c].returned = Cardinality(hist[c].committed)
            /\ (pc[c] = "lookup2" \/ hist[c].passes = 2
                   => hist[c].committed # {})
            /\ (hist[c].committed # {}
                   => pc[c] = "lookup2" \/ hist[c].lookups = 2)

\* C25: within one auto-populate call the 0.1 s delay is taken between any
\* two consecutive profile fetches, whether the earlier result was
\* inserted, inserted from the fallback data, or failed to insert.
C25_DelayBetweenProfileFetches ==
    \A c \in Checks : hist[c].undelayed = 0

(***************************************************************************)
(* The scoring passes (Spec)                                               *)
(***************************************************************************)
\* The identities check c has handed to the composite scorer.
ScoredIds(c) == {best[c].scored[k] : k \in DOMAIN best[c].scored}

\* C26: a cached identity whose username similarity to the member is below
\* 65 is never handed to the composite scorer and never becomes the matched
\* identity, in the first pass and in the pass after auto-populate; every
\* Detection has a username-similarity bucket of at least 10.
C26_FloorIsHardGate ==
    /\ \A c \in Checks :
          /\ \A id \in ScoredIds(c) :
                UsernameSimilarity(member[c], id) >= MinSimilarity
          /\ (best[c].id # NoId =>
                 /\ best[c].similarity >= MinSimilarity
                 /\ UsernameSimilarity(member[c], best[c].id) >= MinSimilarity)
          /\ \A d \in session[c].det :
                d.scores.username_similarity_score >= 10
    /\ \A d \in detections : d.scores.username_similarity_score >= 10

\* A check met an identity below the floor in both passes and still
\* reported another identity.
C26_BelowFloorSeenTwice ==
    \E c \in Checks, i \in Ids :
        /\ pc[c] = "done"
        /\ result[c] = "detection"
        /\ hist[c].passes = 2
        /\ hist[c].scored = 3
        /\ cache[i].present
        /\ UsernameSimilarity(member[c], i) < MinSimilarity
        /\ i \notin ScoredIds(c)

\* The composite total of identity id for the member of check c, without
\* avatar comparison, from the committed row.
TotalOf(c, id) ==
    CalculateScore(UsernameSimilarity(member[c], id), member[c].age,
                   IF member[c].bio /\ cache[id].description
                   THEN BioSimilarity(id) ELSE 0,
                   cache[id].follower_count, cache[id].has_discord_link,
                   0).total_score

\* C27: the matched identity of a check has the highest composite total
\* (before any avatar bonus) among all candidates that passed the gate in
\* the first pass and the pass after auto-populate; among equal totals it
\* is the one scored first; the best total never decreases during a check.
C27_BestIsFirstHighest ==
    /\ [](\A c \in Checks :
            LET b == best[c] IN
            /\ (b.scored # <<>> <=> b.id # NoId)
            /\ (b.id # NoId =>
                  /\ b.at \in DOMAIN b.scored
                  /\ b.scored[b.at] = b.id
                  /\ b.score >= TotalOf(c, b.id)
                  /\ \A k \in DOMAIN b.scored :
                        /\ TotalOf(c, b.scored[k]) <= TotalOf(c, b.id)
                        /\ (k < b.at =>
                              TotalOf(c, b.scored[k]) < TotalOf(c, b.id))))
    /\ [][\A c \in Checks : best'[c].score >= best[c].score]_vars

\* A check whose second pass met the first-pass best again, with the same
\* total, and a new identity with a lower one.
C27_SecondPassTie ==
    \E c \in Checks :
        LET b == best[c] IN
        /\ pc[c] = "done"
        /\ hist[c].passes = 2
        /\ Len(b.scored) = 3
        /\ b.at = 1
        /\ b.scored[1] = b.id
        /\ \E k \in 2..3 : b.scored[k] = b.id
        /\ \E k \in 2..3 : b.scored[k] # b.id

\* Every Detection written so far, flushed or committed.
AllDetections == detections \cup UNION {session[c].det : c \in Checks}

\* C28: the avatar image is fetched and compared only when the best match
\* has username similarity of at least 85, the matched identity has a stored
\* image hash and the member has a custom avatar; a Detection has an avatar
\* bucket above 0 only if its username bucket is at least 30.
C28_AvatarOnlyForCloseNames ==
    /\ \A c \in Checks :
          (pc[c] = "avatar" \/ hist[c].avatar # "none") =>
              /\ best[c].similarity >= 85
              /\ best[c].row.profile_image_hash
              /\ member[c].avatar
    /\ \A d \in AllDetections :
          d.scores.avatar_match_score > 0 =>
              d.scores.username_similarity_score >= 30

\* A committed Detection with an avatar bonus, next to a finished check
\* whose best match had a stored hash but too distant a name to be compared.
C28_BonusAndSkippedComparison ==
    /\ \E d \in detections : d.scores.avatar_match_score > 0
    /\ \E c \in Checks :
          /\ pc[c] = "done"
          /\ best[c].id # NoId
          /\ best[c].similarity < 85
          /\ best[c].row.profile_image_hash
          /\ member[c].avatar
          /\ hist[c].avatar = "none"

\* The best match of check c scored with no avatar comparison.
SansAvatar(c) ==
    LET b == best[c]
        scores == CalculateScore(b.similarity, member[c].age,
                                 b.bio_similarity, b.row.follower_count,
                                 b.row.has_discord_link, 0)
    IN  [b EXCEPT !.scores = scores, !.score = scores.total_score]

\* C29: a failed avatar fetch or decode does not fail the check; the
\* matched identity, every component score, the total, the tier and the
\* decision to report are those of the check without avatar comparison.
C29_FailedFetchIsNoBonus ==
    /\ [](\A c \in Checks :
            hist[c].avatar = "failed" =>
                /\ best[c] = SansAvatar(c)
                /\ best[c].scores.avatar_match_score = 0
                /\ \A d \in AllDetections :
                      d.check = c => d = DetectionRecord(c, SansAvatar(c)))
    /\ [][\A c \in Checks :
            (pc[c] = "avatar" /\ hist'[c].avatar = "failed") =>
                /\ best'[c] = best[c]
                /\ hist'[c].failed = hist[c].failed
                /\ hist'[c].raised = hist[c].raised
                /\ IF BelowThreshold(best[c].score)
                   THEN pc'[c] = "done" /\ result'[c] = "None"
                   ELSE pc'[c] = "create" /\ result'[c] = result[c]]_vars

\* A check whose avatar fetch failed and whose Detection was committed,
\* next to one whose avatars were compared and earned the bonus.
C29_FailedFetchStillReports ==
    /\ \E c \in Checks :
          /\ hist[c].avatar = "failed"
          /\ result[c] = "detection"
          /\ \E d \in detections :
                d.check = c /\ d.scores.avatar_match_score = 0
    /\ \E c \in Checks :
          /\ hist[c].avatar = "compared"
          /\ \E d \in detections :
                d.check = c /\ d.scores.avatar_match_score > 0

\* A finished fetch returned (an exception never leaves the call), and
\* returned no image for every answer that must be refused.
FetchFailsClosed ==
    fetch.pc = "done" =>
        /\ fetch.outcome \in {"None", "content"}
        /\ (\/ fetch.error
            \/ fetch.response.status_code # 200
            \/ fetch.response.content_type \notin {"image/png", "image/jpeg"}
            \/ (fetch.response.content_length.kind = "number"
                  /\ fetch.response.content_length.n > 2000000)
            \/ fetch.response.body > 2000000)
               => fetch.outcome = "None"

\* C30: the image fetch never raises and returns no image for a non-200
\* response, a non-image content type, a declared or actual size above
\* 2 MB and any network error; a response whose declared length exceeds
\* the ceiling is refused without its body being downloaded.
C30_CeilingBeforeAndAfterDownload ==
    /\ FetchFailsClosed
    /\ fetch.pc = "done" =>
          ((fetch.response.content_length.kind = "number"
             /\ fetch.response.content_length.n > 2000000)
              => fetch.downloaded = 0)

\* C31: the avatar-hash cache never holds more than its limit once a
\* lookup has returned; an insertion that exceeds the limit evicts the
\* oldest-inserted entries, EvictCount of them, in insertion order; a failed
\* fetch or decode is not cached; a cached url is not fetched again.
C31_HashCacheBoundedFIFO ==
    /\ [](Len(avatar_hash_cache) <= AvatarCacheLimit)
    /\ [][\A t \in HashTasks :
            LET url == hash_call[t].url
                old == avatar_hash_cache
                new == avatar_hash_cache'
            IN
            /\ (hash_call[t].pc = "idle" /\ hash_call'[t].pc = "fetch") =>
                   hash_call'[t].url \notin CachedUrls(old)
            /\ (hash_call[t].pc = "fetch" /\ hash_call'[t].pc = "idle"
                  /\ hash_call'[t].out = NoResult) => new = old
            /\ (hash_call[t].pc = "fetch" /\ hash_call'[t].pc = "idle"
                  /\ hash_call'[t].out # NoResult) =>
                   IF url \in CachedUrls(old)
                   THEN CachedUrls(new) = CachedUrls(old)
                   ELSE IF Len(old) < AvatarCacheLimit
                   THEN new = Append(old, [url |-> url,
                                           hash |-> hash_call'[t].out])
                   ELSE new = SubSeq(Append(old, [url |-> url,
                                           hash |-> hash_call'[t].out]),
                                     EvictCount + 1, Len(old) + 1)]_vars

\* One lookup has just evicted the oldest entries while the other one
\* returned a cached hash of 0.
C31_EvictedAndHit ==
    \E t, u \in HashTasks :
        /\ t # u
        /\ hash_call[t].evicted
        /\ Len(avatar_hash_cache) = AvatarCacheLimit + 1 - EvictCount
        /\ hash_call[u].pc = "idle"
        /\ hash_call[u].out = 0
        /\ hash_call[u].url \in CachedUrls(avatar_hash_cache)

\* The rows a finished search returned, as a set.
Returned == {search.out[k] : k \in DOMAIN search.out}

\* The answer of the length-window scan for a window given as a set of
\* rows: at most limit rows, all of the window, most recently updated
\* first, and no row of the window left out for an older one or while
\* there is room.
IsScanOf(window) ==
    /\ Len(search.out) <= search.limit
    /\ Returned \subseteq window
    /\ \A i, j \in DOMAIN search.out :
          i < j => search.out[i].last_updated > search.out[j].last_updated
    /\ \A r \in window \ Returned :
          /\ Len(search.out) = search.limit
          /\ \A o \in Returned : o.last_updated > r.last_updated

\* Rows whose handle length is within 3 characters of the query's length.
WithinThree == {r \in search.table : Abs(r.name_len - search.username) <= 3}

\* Rows whose handle length is within 3 characters of the query's length
\* and at least 3.
WithinThreeFromThree == {r \in WithinThree : r.name_len >= 3}

\* C32 as stated: the length-window scan returns at most limit identities,
\* all within 3 characters of the query's length, every such identity up to
\* the limit, most recently updated first; trigram matches lie in the same
\* window.
C32_CandidatesWithinThree ==
    /\ (search.outcome = "returned" /\ search.trigram = "empty")
          => IsScanOf(WithinThree)
    /\ search.trigram = "matches"
          => /\ Returned \subseteq WithinThree
             /\ Len(search.out) <= search.limit

\* C32 amended: the window is the lengths from max(3, n - 3) to n + 3 for a
\* query of length n; identities with a handle shorter than 3 characters
\* are never candidates.
C32_CandidatesInFlooredWindow ==
    /\ (search.outcome = "returned" /\ search.trigram = "empty")
          => IsScanOf(WithinThreeFromThree)
    /\ search.trigram = "matches"
          => /\ Returned \subseteq WithinThreeFromThree
             /\ Len(search.out) <= search.limit

\* A scan cut at its limit that left out an older row of the window, and
\* a row shorter than 3 characters within 3 of the query's length.
C32_ScanCutAtLimit ==
    /\ search.outcome = "returned"
    /\ search.trigram = "empty"
    /\ Len(search.out) = search.limit
    /\ WithinThreeFromThree \ Returned # {}
    /\ WithinThree # WithinThreeFromThree

\* The members check_user was called for by the handler.
Called == {events.called[k] : k \in DOMAIN events.called}

\* The members the handler had to look at.
Seen == {events.members[k] : k \in DOMAIN events.members}

\* The handler never calls check_user for a verified member, and once it
\* has finished for a guild with detection enabled, every unverified
\* member that is not a bot has been checked.
ChecksExactlyTheUnverified ==
    /\ \A m \in Called : ~m.verified
    /\ (/\ events.pc = "done"
        /\ events.guild.configured
        /\ events.guild.impersonation_detection_enabled)
          => \A m \in Seen : (~m.verified /\ ~m.bot) => m \in Called

\* The daily scan checks exactly the unverified members that are no bots.
DailyChecksTheUnverified ==
    events.handler = "daily" => ChecksExactlyTheUnverified

\* C34: check_user is called only for members without a verification
\* record; the member-join handler and the daily scan skip a verified
\* member before the call and check an unverified member that is not a bot
\* when detection is enabled for the guild.
C34_OnlyUnverifiedChecked ==
    events.handler \in {"join", "daily"} => ChecksExactlyTheUnverified

\* The refresh has just returned False.
RefreshReturnsFalse == refresh.pc # "idle" /\ refresh'.result = "False"

\* The refresh of identity id has just committed and returned True.
RefreshSucceeds(id) ==
    /\ refresh.pc = "rf_store"
    /\ refresh.id = id
    /\ refresh'.result = "True"

\* C33: no step of a check, of auto-populate, of a refresh or of the
\* stale-entry scan removes a committed identity; a stale identity stays
\* in the cache and among the stale entries until a refresh of it succeeds;
\* a refresh that returns False leaves the cache as it was.
C33_NeverDeletedStaleUntilRefreshed ==
    [][/\ \A id \in Ids :
            /\ cache[id].present => cache'[id].present
            /\ (id \in GetStaleEntries(cache)
                  /\ id \notin GetStaleEntries(cache')) => RefreshSucceeds(id)
       /\ RefreshReturnsFalse => cache' = cache
      ]_vars

\* A stale identity outlived a failed refresh and a committed check that
\* counted a cache hit on it, while another one was refreshed.
C33_StaleAfterFailedRefresh ==
    \E id \in Ids :
        /\ id \in GetStaleEntries(cache)
        /\ cache[id].cache_hits > 0
        /\ refresh.result = "False"
        /\ refresh.id = id
        /\ refresh.runs = 2
        /\ \E j \in Ids \ {id} :
              cache[j].present /\ j \notin GetStaleEntries(cache)

PassesAtOnce == rl_pc' = rl_pc /\ recorded' # recorded

\* Task t is admitted to the critical section in this step (any idle task
\* stands for the caller of a call that passes at once).
Admitted(t) ==
    \/ rl_pc[t] = "waiting" /\ rl_pc'[t] # "waiting"
    \/ rl_pc[t] = "idle" /\ rl_pc'[t] = "sleeping"
    \/ rl_pc[t] = "idle" /\ PassesAtOnce

\* The acquire() call of task t returns in this step.
Returns(t) ==
    \/ rl_pc[t] \in {"waiting", "sleeping"} /\ rl_pc'[t] = "idle"
    \/ rl_pc[t] = "idle" /\ PassesAtOnce

\* C36: every acquire() call returns, and records exactly one timestamp
\* when it does; callers enter the critical section in the order in which
\* they asked for the lock; while a caller sleeps no other is admitted.
C36_AcquireReturnsInOrder ==
    /\ \A t \in 1..NumTasks : (rl_pc[t] # "idle") ~> (rl_pc[t] = "idle")
    /\ [][\A t \in Tasks :
            /\ Returns(t) =>
                  /\ recorded' = Append(recorded, now)
                  /\ Len(request_times') <= Len(request_times) + 1
                  /\ request_times'[Len(request_times')] = now
            /\ ((\A u \in Tasks : ~Returns(u)) => recorded' = recorded)
            /\ (Admitted(t) /\ rl_pc[t] = "waiting") =>
                  /\ Head(lock_waiters) = t
                  /\ lock_waiters' = Tail(lock_waiters)
            /\ (Admitted(t) /\ rl_pc[t] = "idle") => lock_waiters = <<>>
            /\ (rl_pc[t] = "sleeping" /\ rl_pc'[t] = "sleeping") =>
                  \A u \in Tasks \ {t} : ~Admitted(u)
            /\ (rl_pc[t] = "idle" /\ rl_pc'[t] = "waiting") =>
                  lock_waiters' = Append(lock_waiters, t)
      ]_vars

\* Every call of the behaviour has returned, one of them after queueing
\* for the lock behind a caller that slept for the window.
C36_AllReturnedAfterQueueing ==
    /\ Len(recorded) = MaxRequests
    /\ \A t \in Tasks : rl_pc[t] = "idle"
    /\ \E t \in Tasks : rl_wake[t] > 0
    /\ recorded[MaxRequests] > MaxTime

(***************************************************************************)
(* Consistency of a Detection (Spec)                                       *)
(***************************************************************************)
\* The tier table of the scorer.
TierOf(total) ==
    IF total >= 80 THEN "critical"
    ELSE IF total >= 60 THEN "high"
    ELSE IF total >= 40 THEN "medium"
    ELSE "low"

\* The scores check c hands back with a detection: matched_scores, which
\* the model keeps in best[c].scores.
ReturnedScores(c) == best[c].scores

\* C37: every Detection a check creates has a total equal to the sum of its
\* six bucket scores, a risk tier that is the tier table applied to the
\* total and never "low", the best match of the check as matched identity,
\* and exactly the scores the check returns, also after a re-score for the
\* avatar bonus; a check that returns a detection has persisted one.
C37_DetectionConsistent ==
    /\ \A d \in AllDetections :
          /\ d.total_score = d.scores.total_score
          /\ d.total_score =
                d.scores.username_similarity_score
                  + d.scores.account_age_score
                  + d.scores.bio_match_score
                  + d.scores.streamer_popularity_score
                  + d.scores.discord_absence_score
                  + d.scores.avatar_match_score
          /\ d.risk_level = d.scores.risk_level
          /\ d.risk_level = TierOf(d.total_score)
          /\ d.risk_level # "low"
          /\ d.suspected_streamer_id = best[d.check].id
          /\ best[d.check].scored # <<>>
          /\ best[d.check].scored[best[d.check].at] = d.suspected_streamer_id
          /\ d.scores = ReturnedScores(d.check)
    /\ \A c \in Checks :
          result[c] = "detection" =>
              \E d \in detections :
                  d.check = c /\ d.scores = ReturnedScores(c)

\* A check returned a detection whose scores were re-computed with an
\* avatar bonus, and the committed Detection carries them.
C37_RescoredDetectionReturned ==
    \E c \in Checks :
        /\ result[c] = "detection"
        /\ hist[c].avatar = "compared"
        /\ \E d \in detections :
              /\ d.check = c
              /\ d.scores.avatar_match_score > 0
              /\ d.total_score = SansAvatar(c).score + d.scores.avatar_match_score

(***************************************************************************)
(* The whitelist after a false_positive action (SpecModeration)            *)
(***************************************************************************)
\* The (guild, member) pair of a Detection.
PairOf(d) == <<d.guild_id, d.discord_user_id>>

\* The execute_action call under way returns True in this step.
ActionSucceeds == moderation.act.ok # "True" /\ moderation'.act.ok = "True"

\* The whitelist query of the check under way answers in this step.
CheckAnswers ==
    moderation.chk.pc = "is_whitelisted" /\ moderation'.chk.pc = "done"

\* C38: when a false_positive action succeeds the Detection's (guild,
\* member) pair is on the whitelist and the Detection is false_positive;
\* the pair stays there until a /whitelist remove of that pair commits;
\* every check that asks while the pair is listed returns no detection,
\* and a check of a pair that is not listed goes on whatever is listed for
\* other guilds; a false_positive action on a listed pair returns False
\* and neither the status of any Detection nor the whitelist changes.
C38_FalsePositiveWhitelists ==
    [][LET act == moderation.act
           chk == moderation.chk
           cmd == moderation.cmd
       IN
       /\ (ActionSucceeds /\ act.action = "false_positive") =>
              /\ <<act.det.guild_id, act.det.discord_user_id>>
                    \in moderation'.whitelist
              /\ moderation'.status[act.det] = "false_positive"
       /\ \A g \in Guilds, u \in Users :
              (<<g, u>> \in moderation.whitelist
                 /\ <<g, u>> \notin moderation'.whitelist) =>
                  /\ cmd.pc = "commit"
                  /\ moderation'.cmd.pc = "done"
                  /\ cmd.guild_id = g
                  /\ cmd.discord_user_id = u
       /\ CheckAnswers =>
              IF <<chk.guild_id, chk.discord_user_id>> \in moderation.whitelist
              THEN moderation'.chk.result \in {"None", "raised"}
              ELSE moderation'.chk.result \in {"continues", "raised"}
       /\ (act.pc = "create"
             /\ <<act.det.guild_id, act.det.discord_user_id>>
                   \in moderation.whitelist) =>
              /\ (moderation'.act # act => moderation'.act.ok = "False")
              /\ moderation'.status = moderation.status
              /\ (moderation'.act # act =>
                     moderation'.whitelist = moderation.whitelist)
       /\ (moderation'.status # moderation.status => ActionSucceeds)
      ]_vars

\* A false_positive action on one Detection of a pair succeeded, the same
\* action on the pair's other Detection failed and left it pending, a check
\* of the pair returned no detection, and the member is not whitelisted in
\* another guild.
C38_SecondFalsePositiveFailed ==
    \E d, e \in Detections :
        /\ d # e
        /\ PairOf(d) = PairOf(e)
        /\ moderation.status[d] = "false_positive"
        /\ moderation.status[e] = "pending"
        /\ moderation.act.det = e
        /\ moderation.act.action = "false_positive"
        /\ moderation.act.ok = "False"
        /\ moderation.whitelist = {PairOf(d)}
        /\ moderation.chk.pc = "done"
        /\ moderation.chk.guild_id = d.guild_id
        /\ moderation.chk.discord_user_id = d.discord_user_id
        /\ moderation.chk.result = "None"

(***************************************************************************)
(* Failures of the two directory calls of a refresh (SpecDir)              *)
(***************************************************************************)
\* C39: a failed follower-count fetch does not end the refresh: the refresh
\* goes on to the cache lookup, and when its commit then returns True,
\* the identity's stored follower count is 0 and its last_updated is
\* advanced, so that it is not stale; a failed profile fetch makes the
\* refresh return False and leaves cache, sessions and Detections as they
\* were.
C39_FollowerFailureIsZeroProfileFailureIsFalse ==
    [][/\ (refresh.pc = "rf_followers" /\ refresh' # refresh) =>
              /\ refresh'.pc = "rf_lookup"
              /\ refresh'.result = "none"
              /\ cache' = cache
       /\ (refresh.pc = "rf_store" /\ refresh.follower_failed
             /\ refresh'.result = "True") =>
              LET id == refresh.id IN
              /\ refresh'.pc = "idle"
              /\ cache'[id].present
              /\ cache'[id].follower_count = 0
              /\ cache'[id].last_updated >= StaleCutoff
              /\ (cache[id].present =>
                     cache'[id].last_updated > cache[id].last_updated)
              /\ id \notin GetStaleEntries(cache')
       /\ (refresh.pc = "rf_store" /\ refresh'.result = "True") =>
              cache'[refresh.id].follower_count =
                  IF refresh.follower_failed
                  THEN 0 ELSE DirFollowers(refresh.id)
       /\ (refresh.pc = "rf_profile" /\ refresh'.pc # "rf_profile") =>
              \/ refresh'.pc = "rf_followers" /\ refresh'.result = "none"
              \/ /\ refresh'.pc = "idle"
                 /\ refresh'.result = "False"
                 /\ cache' = cache
                 /\ session' = session
                 /\ detections' = detections
      ]_vars

\* A stale identity with a known follower count was refreshed while the
\* follower-count fetch failed: the refresh returned True and the identity
\* is stored with 0 followers and is no longer stale.
C39_RefreshedWithZeroFollowers ==
    \E id \in Ids :
        /\ refresh.pc = "idle"
        /\ refresh.id = id
        /\ refresh.existing
        /\ refresh.follower_failed
        /\ refresh.result = "True"
        /\ DirFollowers(id) > 0
        /\ cache[id].follower_count = 0
        /\ cache[id].last_updated >= StaleCutoff
        /\ id \notin GetStaleEntries(cache)

=============================================================================
